---- MODULE Spec2Model ----
(***************************************************************************)
(* A model of the local-biz-agent pipeline: the SQLite store               *)
(* (src/src/database/index.ts) and the discovery, generation and           *)
(* deployment orchestrators that drive businesses through their status     *)
(* lifecycle.                                                              *)
(*                                                                         *)
(* Tables are sequences of rows in insertion (rowid) order.  A JavaScript  *)
(* object is a record whose DOMAIN holds exactly the keys that are         *)
(* defined; SQL NULL / JavaScript null is the value NULL.                  *)
(***************************************************************************)
EXTENDS Integers, Sequences, FiniteSets, TLC

NULL == "NULL"

\* A key of a JS object that is present with the value undefined.
UNDEFINED == "UNDEFINED"

\* ------------------------------------------------------------------ bounds
MaxBiz == 2
MaxWeb == 2
MaxOutreach == 1
MaxBatch == 2

\* ------------------------------------------------------------- value sets
BusinessStatuses ==
  <<"discovered", "enriched", "website_generated", "deployed", "contacted", "sold">>

StatusRank(s) == CHOOSE i \in 1..Len(BusinessStatuses) : BusinessStatuses[i] = s

\* randomUUID(): an id no row of the table uses.
UuidPool == <<"u1", "u2", "u3", "u4", "u5", "u6", "u7", "u8">>

randomUUID(rows) ==
  UuidPool[CHOOSE i \in 1..Len(UuidPool) :
             /\ \A j \in 1..Len(rows) : rows[j].id # UuidPool[i]
             /\ \A k \in 1..(i - 1) : \E j \in 1..Len(rows) : rows[j].id = UuidPool[k]]

\* JavaScript's  data.k ?? dflt  for a key that may be missing or null.
Coalesce(data, k, dflt) ==
  IF k \in DOMAIN data THEN (IF data[k] = NULL THEN dflt ELSE data[k]) ELSE dflt

\* The same for a numeric key (missing or a number).
CoalesceNum(data, k, dflt) == IF k \in DOMAIN data THEN data[k] ELSE dflt

VARIABLES
  businesses,   \* table businesses
  websites,     \* table generated_websites
  outreach,     \* table outreach_log
  result,       \* the last store call: its name, its error, its return value
  completed,    \* history: per business id, the stages completed on it
  stage,        \* the orchestrator that is running: idle, discovery, generation, deployment
  runs,         \* stage runs started so far
  responses,    \* places adapter: per (area, category) pair, what search + details answer
  disc,         \* DiscoveryService.run: its position, the pair's stats, the summary
  gen,          \* GeneratorService.generateForBusinesses: its position and summary
  dep,          \* DeploymentService.deployPending: its position and counters
  discLog,      \* history: what each finished discovery run returned
  clock,        \* the wall clock, as an index into Times
  hosting,      \* the hosting service and the client's call to it
  upload,       \* VercelClient.deployWebsite: the retried upload and the polling
  limiter,      \* a RateLimiter, its callers and the time they see
  sent,         \* the requests the adapters sent to their services, in order
  execs         \* the DiscoveryService.run executions in flight side by side

storeVars == <<businesses, websites, outreach>>
pipeVars == <<stage, runs, responses, disc, gen, dep, discLog, clock, hosting, upload, limiter, sent, execs>>

\* The timestamps the clock can show, in increasing order.
Times == <<"t1", "t2", "t3", "t4", "t5">>

MaxClock == 3

\* new Date().toISOString()
Now == Times[clock]

\* Time passes.
Tick ==
  /\ clock < MaxClock
  /\ clock' = clock + 1
  /\ UNCHANGED <<businesses, websites, outreach, result, completed,
                 stage, runs, responses, disc, gen, dep, discLog, hosting, upload, limiter, sent, execs>>

\* Array.prototype.filter / WHERE: the elements of seq whose flag is set.
RECURSIVE SelectSeq2(_, _)
SelectSeq2(seq, keep) ==
  IF seq = <<>> THEN <<>>
  ELSE IF keep[1] THEN <<Head(seq)>> \o SelectSeq2(Tail(seq), Tail(keep))
  ELSE SelectSeq2(Tail(seq), Tail(keep))

\* ----------------------------------------------------------- store: reads
RowIndex(rows, id) ==
  IF \E i \in 1..Len(rows) : rows[i].id = id
    THEN CHOOSE i \in 1..Len(rows) : rows[i].id = id
    ELSE 0

getBusinessById(id) ==
  IF RowIndex(businesses, id) = 0 THEN NULL ELSE businesses[RowIndex(businesses, id)]

getWebsiteById(id) ==
  IF RowIndex(websites, id) = 0 THEN NULL ELSE websites[RowIndex(websites, id)]

businessExistsBySource(source, sourceId) ==
  \E i \in 1..Len(businesses) :
    businesses[i].source = source /\ businesses[i].source_id = sourceId

businessExistsByGooglePlaceId(placeId) ==
  \E i \in 1..Len(businesses) : businesses[i].google_place_id = placeId

\* ------------------------------------------------- store: the constraints
\* PRIMARY KEY (id), idx_businesses_source_unique and
\* idx_businesses_google_place_id_unique: row r may not stand beside row q.
BusinessConflictNoIndex(q, r) == q.id = r.id

BusinessConflict(q, r) ==
  \/ q.id = r.id
  \/ r.source_id # NULL /\ q.source = r.source /\ q.source_id = r.source_id
  \/ r.google_place_id # NULL /\ q.google_place_id = r.google_place_id

\* Row r violates a constraint against the rows other than the i-th.
ViolatesUnique(rows, r, i) ==
  \E j \in 1..Len(rows) : j # i /\ BusinessConflict(rows[j], r)

\* --------------------------------------------------- store: business rows
\* The row insertBusiness and insertBusinesses bind to the INSERT.
BusinessRow(data, id) ==
  [ id              |-> id,
    name            |-> data.name,
    city            |-> Coalesce(data, "city", NULL),
    state           |-> Coalesce(data, "state", NULL),
    website_url     |-> Coalesce(data, "website_url", NULL),
    has_website     |-> CoalesceNum(data, "has_website", 0),
    source          |-> data.source,
    source_id       |-> Coalesce(data, "source_id", NULL),
    google_place_id |-> Coalesce(data, "google_place_id", NULL),
    status          |-> Coalesce(data, "status", "discovered") ]

\* Object.entries(data) with value !== undefined: the keys updateBusiness
\* puts in its SET clause.
Given(data) == {k \in DOMAIN data : data[k] # UNDEFINED}

\* updateBusiness binding every key of data, undefined ones too.
UpdateRowsAllKeys(rows, id, data) ==
  LET i == RowIndex(rows, id)
      r == [k \in DOMAIN rows[i] |->
              IF k = "updated_at" THEN Now
              ELSE IF k \in DOMAIN data THEN data[k] ELSE rows[i][k]]
  IN  IF i = 0 THEN [rows |-> rows, error |-> NULL, changes |-> 0]
      ELSE IF ViolatesUnique(rows, r, i)
        THEN [rows |-> rows, error |-> "SQLITE_CONSTRAINT", changes |-> 0]
        ELSE [rows |-> [rows EXCEPT ![i] = r], error |-> NULL, changes |-> 1]

\* UPDATE businesses SET updated_at = now, <the defined keys of data>
\* WHERE id = @id, on the columns the rows are modelled with.
\* [rows, error, changes]
UpdateRows(rows, id, data) ==
  LET i == RowIndex(rows, id)
      r == [k \in DOMAIN rows[i] |->
              IF k = "updated_at" THEN Now
              ELSE IF k \in Given(data) THEN data[k] ELSE rows[i][k]]
  IN  IF i = 0 THEN [rows |-> rows, error |-> NULL, changes |-> 0]
      ELSE IF ViolatesUnique(rows, r, i)
        THEN [rows |-> rows, error |-> "SQLITE_CONSTRAINT", changes |-> 0]
        ELSE [rows |-> [rows EXCEPT ![i] = r], error |-> NULL, changes |-> 1]

\* updateBusinessStatus(id, status) = updateBusiness(id, {status}); a status
\* alone cannot violate an index, so only the rows matter to the callers.
updateBusinessStatus(rows, id, status) ==
  UpdateRows(rows, id, [status |-> status]).rows

\* The transaction body of insertBusinesses: INSERT OR IGNORE per item.
RECURSIVE InsertManyCountAll(_, _, _)
InsertManyCountAll(items, rows, count) ==
  IF items = <<>> THEN [rows |-> rows, count |-> count]
  ELSE LET data == Head(items)
           row  == BusinessRow(data, Coalesce(data, "id", randomUUID(rows)))
       IN  IF ViolatesUnique(rows, row, 0)
             THEN InsertManyCountAll(Tail(items), rows, count + 1)
             ELSE InsertManyCountAll(Tail(items), Append(rows, row), count + 1)

RECURSIVE InsertMany(_, _, _)
InsertMany(items, rows, count) ==
  IF items = <<>> THEN [rows |-> rows, count |-> count]
  ELSE LET data == Head(items)
           row  == BusinessRow(data, Coalesce(data, "id", randomUUID(rows)))
       IN  IF ViolatesUnique(rows, row, 0)
             THEN InsertMany(Tail(items), rows, count)
             ELSE InsertMany(Tail(items), Append(rows, row), count + 1)

\* ------------------------------------------------- store: business actions
insertBusiness(data) ==
  LET id  == Coalesce(data, "id", randomUUID(businesses))
      row == BusinessRow(data, id)
  IN  /\ IF ViolatesUnique(businesses, row, 0)
           THEN /\ UNCHANGED businesses
                /\ result' = [op |-> "insertBusiness",
                              error |-> "SQLITE_CONSTRAINT", value |-> NULL]
           ELSE /\ Len(businesses) < MaxBiz
                /\ businesses' = Append(businesses, row)
                /\ result' = [op |-> "insertBusiness", error |-> NULL, value |-> id]
      /\ UNCHANGED <<websites, outreach, completed, pipeVars>>

insertBusinesses(batch) ==
  LET r == InsertMany(batch, businesses, 0)
  IN  /\ Len(r.rows) <= MaxBiz
      /\ businesses' = r.rows
      /\ result' = [op |-> "insertBusinesses", error |-> NULL, value |-> r.count]
      /\ UNCHANGED <<websites, outreach, completed, pipeVars>>

updateBusiness(id, data) ==
  LET r == UpdateRows(businesses, id, data)
  IN  /\ businesses' = r.rows
      /\ result' = [op |-> "updateBusiness", error |-> r.error,
                    value |-> IF r.changes = 0 THEN NULL ELSE id]
      /\ UNCHANGED <<websites, outreach, completed, pipeVars>>

\* ----------------------------------------------------- store: websites
WebUuidPool == <<"w1", "w2", "w3", "w4", "w5", "w6", "w7", "w8">>

randomWebUUID(rows) ==
  WebUuidPool[CHOOSE i \in 1..Len(WebUuidPool) :
                /\ \A j \in 1..Len(rows) : rows[j].id # WebUuidPool[i]
                /\ \A k \in 1..(i - 1) : \E j \in 1..Len(rows) : rows[j].id = WebUuidPool[k]]

WebsiteRow(data, id) ==
  [ id               |-> id,
    business_id      |-> data.business_id,
    template_name    |-> data.template_name,
    variation_number |-> CoalesceNum(data, "variation_number", 1),
    preview_url      |-> Coalesce(data, "preview_url", NULL),
    deployed_at      |-> NULL ]

\* insertWebsite without its updateBusinessStatus call.
InsertWebsiteKeepStatus(bs, ws, data) ==
  LET id == Coalesce(data, "id", randomWebUUID(ws))
  IN  IF RowIndex(bs, data.business_id) = 0 \/ RowIndex(ws, id) # 0
        THEN [businesses |-> bs, websites |-> ws,
              error |-> "SQLITE_CONSTRAINT", value |-> NULL]
        ELSE [businesses |-> bs, websites |-> Append(ws, WebsiteRow(data, id)),
              error |-> NULL, value |-> id]

\* insertWebsite: the INSERT (PRIMARY KEY, FOREIGN KEY business_id with
\* foreign_keys = ON), then updateBusinessStatus(business_id,
\* 'website_generated').  [businesses, websites, error, value]
InsertWebsite(bs, ws, data) ==
  LET id == Coalesce(data, "id", randomWebUUID(ws))
  IN  IF RowIndex(bs, data.business_id) = 0 \/ RowIndex(ws, id) # 0
        THEN [businesses |-> bs, websites |-> ws,
              error |-> "SQLITE_CONSTRAINT", value |-> NULL]
        ELSE [businesses |-> updateBusinessStatus(bs, data.business_id, "website_generated"),
              websites   |-> Append(ws, WebsiteRow(data, id)),
              error |-> NULL, value |-> id]

\* updateWebsite: no defined key -> getWebsiteById(id); no such row -> null.
\* [websites, found]
UpdateWebsite(ws, id, data) ==
  LET i == RowIndex(ws, id)
  IN  IF i = 0 THEN [websites |-> ws, found |-> FALSE]
      ELSE IF DOMAIN data = {} THEN [websites |-> ws, found |-> TRUE]
      ELSE [websites |-> [ws EXCEPT ![i] =
                            [k \in DOMAIN ws[i] |->
                               IF k \in DOMAIN data THEN data[k] ELSE ws[i][k]]],
            found |-> TRUE]

\* markWebsiteDeployed(id, previewUrl).  [businesses, websites, found]
MarkWebsiteDeployedAllBusinesses(bs, ws, id, previewUrl) ==
  LET u == UpdateWebsite(ws, id, [preview_url |-> previewUrl, deployed_at |-> Now])
  IN  IF u.found
        THEN [businesses |-> [i \in 1..Len(bs) |-> [bs[i] EXCEPT !.status = "deployed"]],
              websites |-> u.websites, found |-> TRUE]
        ELSE [businesses |-> bs, websites |-> ws, found |-> FALSE]

\* markWebsiteDeployed that leaves the deployed_at of a deployed row alone.
MarkWebsiteDeployedOnce(bs, ws, id, previewUrl) ==
  LET w == RowIndex(ws, id)
      at == IF w # 0 /\ ws[w].deployed_at # NULL THEN ws[w].deployed_at ELSE Now
      u == UpdateWebsite(ws, id, [preview_url |-> previewUrl, deployed_at |-> at])
  IN  IF u.found
        THEN [businesses |->
                updateBusinessStatus(bs, u.websites[w].business_id, "deployed"),
              websites |-> u.websites, found |-> TRUE]
        ELSE [businesses |-> bs, websites |-> ws, found |-> FALSE]

MarkWebsiteDeployed(bs, ws, id, previewUrl) ==
  LET u == UpdateWebsite(ws, id, [preview_url |-> previewUrl, deployed_at |-> Now])
  IN  IF u.found
        THEN [businesses |->
                updateBusinessStatus(bs, u.websites[RowIndex(ws, id)].business_id, "deployed"),
              websites |-> u.websites, found |-> TRUE]
        ELSE [businesses |-> bs, websites |-> ws, found |-> FALSE]

\* ------------------------------------------------------ store: outreach
OutreachUuidPool == <<"o1", "o2", "o3", "o4">>

\* logOutreach: the INSERT (FOREIGN KEY business_id), then
\* updateBusinessStatus(business_id, 'contacted').  [businesses, outreach, error]
LogOutreach(bs, os, data) ==
  IF RowIndex(bs, data.business_id) = 0
    THEN [businesses |-> bs, outreach |-> os, error |-> "SQLITE_CONSTRAINT"]
    ELSE [businesses |-> updateBusinessStatus(bs, data.business_id, "contacted"),
          outreach   |-> Append(os, [id |-> OutreachUuidPool[Len(os) + 1],
                                     business_id |-> data.business_id,
                                     method |-> data.method]),
          error |-> NULL]

\* History: stage st is completed on business id.
Complete(c, id, st) ==
  [b \in DOMAIN c \cup {id} |-> IF b = id
                                  THEN (IF b \in DOMAIN c THEN c[b] ELSE {}) \cup {st}
                                  ELSE c[b]]

\* -------------------------------------------------- store: website actions
insertWebsite(data) ==
  LET r == InsertWebsite(businesses, websites, data)
  IN  /\ r.error = NULL => Len(websites) < MaxWeb
      /\ businesses' = r.businesses
      /\ websites' = r.websites
      /\ result' = [op |-> "insertWebsite", error |-> r.error, value |-> r.value]
      /\ completed' = IF r.error = NULL
                        THEN Complete(completed, data.business_id, "website_generated")
                        ELSE completed
      /\ UNCHANGED <<outreach, pipeVars>>

updateWebsite(id, data) ==
  LET r == UpdateWebsite(websites, id, data)
  IN  /\ websites' = r.websites
      /\ result' = [op |-> "updateWebsite", error |-> NULL,
                    value |-> IF r.found THEN id ELSE NULL]
      /\ UNCHANGED <<businesses, outreach, completed, pipeVars>>

markWebsiteDeployed(id, previewUrl) ==
  LET r == MarkWebsiteDeployed(businesses, websites, id, previewUrl)
  IN  /\ businesses' = r.businesses
      /\ websites' = r.websites
      /\ result' = [op |-> "markWebsiteDeployed", error |-> NULL,
                    value |-> IF r.found THEN id ELSE NULL, url |-> previewUrl]
      /\ completed' = IF r.found
                        THEN Complete(completed, getWebsiteById(id).business_id, "deployed")
                        ELSE completed
      /\ UNCHANGED <<outreach, pipeVars>>

logOutreach(data) ==
  LET r == LogOutreach(businesses, outreach, data)
  IN  /\ r.error = NULL => Len(outreach) < MaxOutreach
      /\ businesses' = r.businesses
      /\ outreach' = r.outreach
      /\ result' = [op |-> "logOutreach", error |-> r.error, value |-> NULL]
      /\ completed' = IF r.error = NULL
                        THEN Complete(completed, data.business_id, "contacted")
                        ELSE completed
      /\ UNCHANGED <<websites, pipeVars>>

\* deleteBusiness: the DELETE, which also removes the business's websites and
\* outreach rows (ON DELETE CASCADE with foreign_keys = ON).
\* [businesses, websites, outreach, found]
DeleteBusinessNoCascade(bs, ws, os, id) ==
  [ businesses |-> SelectSeq2(bs, [k \in 1..Len(bs) |-> bs[k].id # id]),
    websites   |-> ws,
    outreach   |-> os,
    found      |-> RowIndex(bs, id) # 0 ]

DeleteBusiness(bs, ws, os, id) ==
  [ businesses |-> SelectSeq2(bs, [k \in 1..Len(bs) |-> bs[k].id # id]),
    websites   |-> SelectSeq2(ws, [k \in 1..Len(ws) |-> ws[k].business_id # id]),
    outreach   |-> SelectSeq2(os, [k \in 1..Len(os) |-> os[k].business_id # id]),
    found      |-> RowIndex(bs, id) # 0 ]

deleteBusiness(id) ==
  LET r == DeleteBusiness(businesses, websites, outreach, id)
  IN  /\ businesses' = r.businesses
      /\ websites' = r.websites
      /\ outreach' = r.outreach
      /\ result' = [op |-> "deleteBusiness", error |-> NULL, value |-> r.found]
      /\ UNCHANGED <<completed, pipeVars>>

\* deleteWebsite: DELETE FROM generated_websites WHERE id = ?
deleteWebsite(id) ==
  /\ websites' = SelectSeq2(websites, [k \in 1..Len(websites) |-> websites[k].id # id])
  /\ result' = [op |-> "deleteWebsite", error |-> NULL,
                value |-> RowIndex(websites, id) # 0]
  /\ UNCHANGED <<businesses, outreach, completed, pipeVars>>

\* ------------------------------------------------------------ discovery
\* DiscoveryConfig: one area and two categories, so that the same business
\* can come back under both categories.
Areas == << [city |-> "Oxford", state |-> "MS"] >>
Categories == << "barber_shop", "salon" >>
OnlyOperational == TRUE

NumPairs == Len(Areas) * Len(Categories)

\* The (area, category) pairs in the order of run()'s nested loops.
PairArea(p) == Areas[((p - 1) \div Len(Categories)) + 1]
PairCategory(p) == Categories[((p - 1) % Len(Categories)) + 1]

\* SQLite's LOWER() on the strings of the model: the built-in function folds
\* the ASCII letters only and leaves every other character as it is.
LowerTable ==
  ("Café" :> "café") @@ ("CAFÉ" :> "cafÉ") @@
  ("Joe" :> "joe") @@ ("JOE" :> "joe") @@ ("joe" :> "joe") @@
  ("Joe LLC" :> "joe llc") @@ ("Al" :> "al") @@ ("Bo" :> "bo") @@
  ("Di" :> "di") @@ ("Ed" :> "ed") @@ ("Cy" :> "cy") @@
  ("Oxford" :> "oxford") @@ ("OXFORD" :> "oxford") @@ ("oxford" :> "oxford") @@
  ("MS" :> "ms") @@ ("ms" :> "ms") @@
  ("New Albany" :> "new albany") @@
  ("Mock Business 3" :> "mock business 3") @@ ("Mock Business 4" :> "mock business 4") @@
  ("Mock Business 8" :> "mock business 8") @@ ("Mock Business 9" :> "mock business 9")

Lower(str) == IF str \in DOMAIN LowerTable THEN LowerTable[str] ELSE str

\* String.prototype.trim() on the strings of the model.
Trim(str) == IF str \in {" ", "  "} THEN "" ELSE str

\* place.website && place.website.trim().length > 0
HasWebsite(place) ==
  /\ "website" \in DOMAIN place
  /\ place.website \notin {NULL, ""}
  /\ Trim(place.website) # ""

Min(a, b) == IF a < b THEN a ELSE b

\* The filter of step 3.  Ratings are in tenths; minRating 0 is "not
\* configured" and a place without a rating passes the rating test.
Keep(place, onlyOperational, minRating) ==
  IF onlyOperational /\ place.business_status # "OPERATIONAL"
    THEN FALSE
  ELSE IF minRating # 0 /\ "rating" \in DOMAIN place /\ place.rating # 0
          /\ place.rating < minRating
    THEN FALSE
    ELSE ~HasWebsite(place)

\* The filter of step 3 with no minRating configured.
KeepPlace(place) == Keep(place, OnlyOperational, 0)

\* getPlaceDetailsBatch: the details that came back (null ones are dropped).
Detailed(entries) ==
  SelectSeq2(entries, [k \in 1..Len(entries) |-> entries[k].place_id # NULL])

WithoutWebsites(entries) ==
  LET d == Detailed(entries)
  IN  SelectSeq2(d, [k \in 1..Len(d) |-> KeepPlace(d[k])])

\* saveIfNew's raw query: LOWER(name) = LOWER(?) AND LOWER(city) = LOWER(?)
\* AND LOWER(state) = LOWER(?); a NULL column never compares equal.
ExistingByName(rows, name, city, state) ==
  \E i \in 1..Len(rows) :
    /\ Lower(rows[i].name) = Lower(name)
    /\ rows[i].city # NULL /\ Lower(rows[i].city) = Lower(city)
    /\ rows[i].state # NULL /\ Lower(rows[i].state) = Lower(state)

\* The object saveIfNew passes to insertBusiness.
DiscoveredBusinessWithUrl(place, category, area) ==
  [ name            |-> place.name,
    city            |-> Coalesce(place, "city", area.city),
    state           |-> Coalesce(place, "state", area.state),
    website_url     |-> Coalesce(place, "website", NULL),
    has_website     |-> 0,
    source          |-> "google_places",
    source_id       |-> place.place_id,
    google_place_id |-> place.place_id,
    status          |-> "discovered" ]

DiscoveredBusiness(place, category, area) ==
  [ name            |-> place.name,
    city            |-> Coalesce(place, "city", area.city),
    state           |-> Coalesce(place, "state", area.state),
    website_url     |-> NULL,
    has_website     |-> 0,
    source          |-> "google_places",
    source_id       |-> place.place_id,
    google_place_id |-> place.place_id,
    status          |-> "discovered" ]

\* saveIfNew(place, category, area) on the rows bs: "exists", "saved", or
\* "threw" when insertBusiness raises.  [businesses, outcome]
SaveIfNew(bs, place, category, area) ==
  LET data == DiscoveredBusiness(place, category, area)
      row  == BusinessRow(data, randomUUID(bs))
  IN  IF \E i \in 1..Len(bs) :
           bs[i].source = "google_places" /\ bs[i].source_id = place.place_id
        THEN [businesses |-> bs, outcome |-> "exists"]
      ELSE IF ExistingByName(bs, data.name, data.city, data.state)
        THEN [businesses |-> bs, outcome |-> "exists"]
      ELSE IF ViolatesUnique(bs, row, 0)
        THEN [businesses |-> bs, outcome |-> "threw"]
        ELSE [businesses |-> Append(bs, row), outcome |-> "saved"]

ZeroStats == [found |-> 0, withoutWebsite |-> 0, saved |-> 0, alreadyExists |-> 0]

ZeroSummary ==
  [totalFound |-> 0, withoutWebsite |-> 0, newlySaved |-> 0, alreadyExists |-> 0]

\* run()'s "Update summary stats" for one pair.
AddStats(summary, stats) ==
  [ totalFound     |-> summary.totalFound + stats.found,
    withoutWebsite |-> summary.withoutWebsite + stats.withoutWebsite,
    newlySaved     |-> summary.newlySaved + stats.saved,
    alreadyExists  |-> summary.alreadyExists + stats.alreadyExists ]

\* The names of the run() executions that may be in flight side by side.
Execs == {"A", "B"}

\* disc: pair and phase are the position in run(); cands, i and stats belong
\* to discoverForAreaAndCategory; last is what the last saveIfNew did;
\* pairStats (what each finished pair returned), failed (the pairs whose error
\* run() caught), inserted (rows added by this run), rowsBefore (rows in the
\* store when the run began) and visited (the pairs
\* discoverForAreaAndCategory was called for, in call order) are history.
IdleDisc ==
  [ pair |-> 0, phase |-> "idle", cands |-> <<>>, i |-> 0, stats |-> ZeroStats,
    summary |-> ZeroSummary, last |-> "none",
    pairStats |-> <<>>, failed |-> {}, inserted |-> 0, rowsBefore |-> 0,
    visited |-> <<>> ]

\* discoverForAreaAndCategory returned stats: run() adds them and goes on.
PairReturned(d, stats) ==
  [d EXCEPT !.summary = AddStats(d.summary, stats),
            !.pairStats = Append(d.pairStats, stats),
            !.pair = d.pair + 1, !.phase = "search",
            !.cands = <<>>, !.i = 0, !.stats = ZeroStats]

\* discoverForAreaAndCategory raised and run() gives up the remaining pairs.
PairFailedAbort(d) ==
  [d EXCEPT !.failed = d.failed \cup {d.pair},
            !.pairStats = Append(d.pairStats, ZeroStats),
            !.pair = NumPairs + 1, !.phase = "search",
            !.cands = <<>>, !.i = 0, !.stats = ZeroStats]

\* discoverForAreaAndCategory raised: run() logs it and goes on.
PairFailed(d) ==
  [d EXCEPT !.failed = d.failed \cup {d.pair},
            !.pairStats = Append(d.pairStats, ZeroStats),
            !.pair = d.pair + 1, !.phase = "search",
            !.cands = <<>>, !.i = 0, !.stats = ZeroStats]

\* if (saved) stats.saved++ else stats.alreadyExists++
CountSavedAlways(stats, saved) == [stats EXCEPT !.saved = @ + 1]

CountSaved(stats, saved) ==
  IF saved THEN [stats EXCEPT !.saved = @ + 1]
           ELSE [stats EXCEPT !.alreadyExists = @ + 1]

MaxRuns == 4

StartDiscovery ==
  /\ stage = "idle"
  /\ runs < MaxRuns
  /\ stage' = "discovery"
  /\ runs' = runs + 1
  /\ disc' = [IdleDisc EXCEPT !.pair = 1, !.phase = "search",
                              !.rowsBefore = Len(businesses)]
  /\ UNCHANGED <<storeVars, result, completed, responses, clock, upload, limiter, sent, hosting, gen, dep, discLog, execs>>

\* searchBusinesses + getPlaceDetailsBatch + the filter, for the current pair.
DiscoverSearch ==
  /\ stage = "discovery"
  /\ disc.phase = "search"
  /\ disc.pair <= NumPairs
  /\ LET r     == responses[disc.pair]
         cands == WithoutWebsites(r.entries)
         stats == [ZeroStats EXCEPT !.found = Len(r.entries),
                                    !.withoutWebsite = Len(cands)]
         d     == [disc EXCEPT !.visited = Append(@, disc.pair)]
     IN  disc' = IF r.fails THEN PairFailed(d)
                 ELSE IF Len(r.entries) = 0 THEN PairReturned(d, ZeroStats)
                 ELSE IF cands = <<>> THEN PairReturned(d, stats)
                 ELSE [d EXCEPT !.phase = "save", !.cands = cands, !.i = 1,
                                !.stats = stats]
  /\ UNCHANGED <<storeVars, result, completed, stage, runs, responses, clock, upload, limiter, sent, hosting, gen, dep, discLog, execs>>

\* One iteration of step 4: saveIfNew on the next surviving candidate.
DiscoverSave ==
  /\ stage = "discovery"
  /\ disc.phase = "save"
  /\ LET place == disc.cands[disc.i]
         r     == SaveIfNew(businesses, place, PairCategory(disc.pair), PairArea(disc.pair))
         stats == CountSaved(disc.stats, r.outcome = "saved")
         d     == [disc EXCEPT !.last = r.outcome,
                               !.inserted = IF r.outcome = "saved" THEN @ + 1 ELSE @]
     IN  /\ businesses' = r.businesses
         /\ disc' = IF r.outcome = "threw" THEN PairFailed(d)
                    ELSE IF disc.i = Len(disc.cands) THEN PairReturned(d, stats)
                    ELSE [d EXCEPT !.i = disc.i + 1, !.stats = stats]
  /\ UNCHANGED <<websites, outreach, result, completed, stage, runs, responses, clock, upload, limiter, sent, hosting,
                 gen, dep, discLog, execs>>

DiscoverReturn ==
  /\ stage = "discovery"
  /\ disc.phase = "search"
  /\ disc.pair > NumPairs
  /\ stage' = "idle"
  /\ discLog' = Append(discLog, [summary |-> disc.summary, pairStats |-> disc.pairStats,
                                 failed |-> disc.failed, inserted |-> disc.inserted,
                                 rowsBefore |-> disc.rowsBefore,
                                 visited |-> disc.visited])
  /\ disc' = [disc EXCEPT !.phase = "idle"]
  /\ UNCHANGED <<storeVars, result, completed, runs, responses, clock, upload, limiter, sent, hosting, gen, dep, execs>>


\* ------------------------------------------------- discovery, mock mode
\* With no API key the places client answers from its own generator.
MockAreas == { [city |-> "Oxford", state |-> "MS"], [city |-> "New Albany", state |-> "MS"] }

\* BusinessCategory.BARBER_SHOP, SALON and OTHER.
MockCategories == {"barber_shop", "beauty_salon", "establishment"}

\* getMockBusinessNames(category).length
MockNameCount(category) == IF category = "establishment" THEN 5 ELSE 10

\* area.city.toLowerCase().replace(/\s/g, '')
CityKeyTable == ("Oxford" :> "oxford") @@ ("New Albany" :> "newalbany")

\* String(i) for one digit.
Digit == <<"0", "1", "2", "3", "4", "5", "6", "7", "8", "9">>

\* `mock_${city key}_${category}_${i}`
MockPlaceId(area, category, i) ==
  "mock_" \o CityKeyTable[area.city] \o "_" \o category \o "_" \o Digit[i + 1]

\* generateMockBusinesses(area, category, count): discovery reads only the
\* place_id of a search result.
generateMockBusinesses(area, category, count) ==
  [ k \in 1..Min(count, MockNameCount(category)) |->
      [place_id |-> MockPlaceId(area, category, k - 1)] ]

\* parseInt of the part after the last '_', for every mock place id.
MockIndexTable ==
  [ placeId \in { MockPlaceId(area, category, i) :
                    area \in MockAreas, category \in MockCategories, i \in 0..9 } |->
      CHOOSE i \in 0..9 :
        \E area \in MockAreas, category \in MockCategories :
          placeId = MockPlaceId(area, category, i) ]

MockIndex(placeId) == MockIndexTable[placeId]

\* A different rule: every second place has a website.
mockHasWebsiteHalf(index) == index % 2 < 1

\* const hasWebsite = index % 5 < 3
mockHasWebsite(index) == index % 5 < 3

\* mockGetPlaceDetails(placeId); rating 3.5 + (index % 3) * 0.5, in tenths.
mockGetPlaceDetails(placeId) ==
  LET index == MockIndex(placeId)
  IN  [ place_id        |-> placeId,
        name            |-> "Mock Business " \o Digit[index + 1],
        website         |-> IF mockHasWebsite(index)
                              THEN "https://mockbusiness" \o Digit[index + 1] \o ".com"
                              ELSE NULL,
        business_status |-> "OPERATIONAL",
        rating          |-> 35 + (index % 3) * 5 ]

\* getPlaceDetailsBatch on the search results.
MockDetails(area, category, count) ==
  LET found == generateMockBusinesses(area, category, count)
  IN  [k \in 1..Len(found) |-> mockGetPlaceDetails(found[k].place_id)]

\* DiscoveryConfig: areas, categories, maxResultsPerSearch (default 20),
\* onlyOperational (default true), minRating (0: not configured).
MockConfigs ==
  [ areas               : { <<a>> : a \in MockAreas },
    categories          : { <<"barber_shop">>, <<"establishment">>,
                            <<"barber_shop", "beauty_salon">> },
    maxResultsPerSearch : {5, 20},
    onlyOperational     : {TRUE},
    minRating           : {0, 35, 40} ]

ConfigPairs(config) == Len(config.areas) * Len(config.categories)
ConfigArea(config, p) == config.areas[((p - 1) \div Len(config.categories)) + 1]
ConfigCategory(config, p) == config.categories[((p - 1) % Len(config.categories)) + 1]

MaxMockRuns == 2

\* new DiscoveryService(config).run() begins, config drawn from configs.
StartMockDiscoveryWith(configs) ==
  /\ stage = "idle"
  /\ runs < MaxMockRuns
  /\ stage' = "discovery"
  /\ runs' = runs + 1
  /\ \E config \in configs :
       disc' = [ pair |-> 1, phase |-> "search", cands |-> <<>>, i |-> 0,
                 stats |-> ZeroStats, summary |-> ZeroSummary, last |-> "none",
                 pairStats |-> <<>>, failed |-> {}, inserted |-> 0,
                 rowsBefore |-> Len(businesses), visited |-> <<>>,
                 config |-> config ]
  /\ UNCHANGED <<storeVars, result, completed, responses, clock, upload, limiter, sent, hosting, gen, dep, discLog, execs>>

StartMockDiscovery == StartMockDiscoveryWith(MockConfigs)

\* searchBusinesses + getPlaceDetailsBatch + the filter, answered by the mock.
MockDiscoverSearch ==
  /\ stage = "discovery"
  /\ disc.phase = "search"
  /\ disc.pair <= ConfigPairs(disc.config)
  /\ LET config  == disc.config
         details == MockDetails(ConfigArea(config, disc.pair),
                                ConfigCategory(config, disc.pair),
                                config.maxResultsPerSearch)
         cands   == SelectSeq2(details,
                      [k \in 1..Len(details) |->
                         Keep(details[k], config.onlyOperational, config.minRating)])
         stats   == [ZeroStats EXCEPT !.found = Len(details),
                                      !.withoutWebsite = Len(cands)]
         d       == [disc EXCEPT !.visited = Append(@, disc.pair)]
     IN  disc' = IF Len(details) = 0 THEN PairReturned(d, ZeroStats)
                 ELSE IF cands = <<>> THEN PairReturned(d, stats)
                 ELSE [d EXCEPT !.phase = "save", !.cands = cands, !.i = 1,
                                !.stats = stats]
  /\ UNCHANGED <<storeVars, result, completed, stage, runs, responses, clock, upload, limiter, sent, hosting, gen, dep, discLog, execs>>

MockDiscoverSave ==
  /\ stage = "discovery"
  /\ disc.phase = "save"
  /\ LET place == disc.cands[disc.i]
         r     == SaveIfNew(businesses, place, ConfigCategory(disc.config, disc.pair),
                            ConfigArea(disc.config, disc.pair))
         stats == CountSaved(disc.stats, r.outcome = "saved")
         d     == [disc EXCEPT !.last = r.outcome,
                               !.inserted = IF r.outcome = "saved" THEN @ + 1 ELSE @]
     IN  /\ businesses' = r.businesses
         /\ disc' = IF r.outcome = "threw" THEN PairFailed(d)
                    ELSE IF disc.i = Len(disc.cands) THEN PairReturned(d, stats)
                    ELSE [d EXCEPT !.i = disc.i + 1, !.stats = stats]
  /\ UNCHANGED <<websites, outreach, result, completed, stage, runs, responses, clock, upload, limiter, sent, hosting,
                 gen, dep, discLog, execs>>

MockDiscoverReturn ==
  /\ stage = "discovery"
  /\ disc.phase = "search"
  /\ disc.pair > ConfigPairs(disc.config)
  /\ stage' = "idle"
  /\ discLog' = Append(discLog, [summary |-> disc.summary, pairStats |-> disc.pairStats,
                                 failed |-> disc.failed, inserted |-> disc.inserted,
                                 rowsBefore |-> disc.rowsBefore,
                                 visited |-> disc.visited, config |-> disc.config])
  /\ disc' = [disc EXCEPT !.phase = "idle"]
  /\ UNCHANGED <<storeVars, result, completed, runs, responses, clock, upload, limiter, sent, hosting, gen, dep, execs>>

\* run()'s summary.byArea and summary.byCategory after its first n pairs,
\* from what each pair returned (a pair whose error run() caught added
\* nothing).  The key of an area is `${area.city}, ${area.state}`; the
\* categories' labels are distinct, so a category stands for its label.
AreaKey(area) == area.city \o ", " \o area.state

ZeroBreakdown == [found |-> 0, withoutWebsite |-> 0, saved |-> 0]

AddBreakdown(entry, stats) ==
  [ found          |-> entry.found + stats.found,
    withoutWebsite |-> entry.withoutWebsite + stats.withoutWebsite,
    saved          |-> entry.saved + stats.saved ]

\* summary.byArea[areaKey] = zero at the top of every iteration of the outer
\* loop, then += for each of the area's pairs.
RECURSIVE ByArea(_, _, _)
ByArea(config, pairStats, n) ==
  IF n = 0 THEN [k \in {} |-> ZeroBreakdown]
  ELSE LET prev  == ByArea(config, pairStats, n - 1)
           key   == AreaKey(ConfigArea(config, n))
           begun == IF (n - 1) % Len(config.categories) = 0
                      THEN (key :> ZeroBreakdown) @@ prev
                      ELSE prev
       IN  [begun EXCEPT ![key] = AddBreakdown(@, pairStats[n])]

\* if (!summary.byCategory[categoryKey]) summary.byCategory[categoryKey] =
\* zero, then += for the pair.
RECURSIVE ByCategory(_, _, _)
ByCategory(config, pairStats, n) ==
  IF n = 0 THEN [k \in {} |-> ZeroBreakdown]
  ELSE LET prev  == ByCategory(config, pairStats, n - 1)
           key   == ConfigCategory(config, n)
           begun == IF key \in DOMAIN prev THEN prev
                    ELSE prev @@ (key :> ZeroBreakdown)
       IN  [begun EXCEPT ![key] = AddBreakdown(@, pairStats[n])]

\* ----------------------------------------------------------- generation
TEMPLATE_ORDER == << "suspended-dark", "suspended-light", "suspended-bold" >>

\* templatesPerBusiness: 1 in the pipeline script, 2 by default.
TemplatesPerBusinessChoices == {1, 2}

MaxLimit == 2


RECURSIVE Reverse(_)
Reverse(seq) == IF seq = <<>> THEN <<>> ELSE Reverse(Tail(seq)) \o <<Head(seq)>>

Take(seq, n) == SubSeq(seq, 1, Min(n, Len(seq)))

\* WHERE has_website = 0 [AND status IN (...)] ORDER BY discovered_at DESC LIMIT ?
getBusinessesNeedingWebsitesAnyStatus(limit) ==
  Take(Reverse(SelectSeq2(businesses,
         [k \in 1..Len(businesses) |-> businesses[k].has_website = 0])), limit)

getBusinessesNeedingWebsites(limit) ==
  Take(Reverse(SelectSeq2(businesses,
         [k \in 1..Len(businesses) |->
            /\ businesses[k].has_website = 0
            /\ businesses[k].status \in {"discovered", "enriched"}])), limit)

\* WHERE deployed_at IS NULL ORDER BY created_at ASC LIMIT ?
getWebsitesPendingDeployment(limit) ==
  Take(SelectSeq2(websites,
         [k \in 1..Len(websites) |-> websites[k].deployed_at = NULL]), limit)

\* getTemplatesToUse taking the last templates instead of the first.
getTemplatesToUseLast(templatesPerBusiness) ==
  Reverse(Take(Reverse(TEMPLATE_ORDER), templatesPerBusiness))

\* getTemplatesToUse
getTemplatesToUse(templatesPerBusiness) == Take(TEMPLATE_ORDER, templatesPerBusiness)

ZeroGenSummary ==
  [ totalBusinesses |-> 0, successfulGenerations |-> 0, failedGenerations |-> 0,
    totalWebsitesCreated |-> 0 ]

\* gen: b is the position in generateForBusinesses' loop, t the position in
\* generateForBusiness' template loop, websitesGenerated that result's counter,
\* results the GenerationResults pushed so far.  calls is history: every call
\* of the AI client, with its outcome, whether the page was stored, and how
\* many websites the business had before.
IdleGen ==
  [ queue |-> <<>>, b |-> 0, t |-> 0, templates |-> <<>>, websitesGenerated |-> 0,
    summary |-> ZeroGenSummary, results |-> <<>>, calls |-> <<>> ]

\* getWebsitesByBusinessId(businessId), as a count
CountWebsites(ws, businessId) ==
  Cardinality({k \in 1..Len(ws) : ws[k].business_id = businessId})

\* runGeneration with a limit from limits and templatesPerBusiness from
\* tpbs: query the queue; return at once when it is empty.
StartGenerationWith(limits, tpbs) ==
  /\ stage = "idle"
  /\ runs < MaxRuns
  /\ runs' = runs + 1
  /\ \E limit \in limits, tpb \in tpbs :
       LET queue == getBusinessesNeedingWebsites(limit)
       IN  IF queue = <<>>
             THEN /\ gen' = IdleGen
                  /\ stage' = "idle"
             ELSE /\ gen' = [ queue |-> queue, b |-> 1, t |-> 1,
                              templates |-> getTemplatesToUse(tpb),
                              websitesGenerated |-> 0,
                              summary |-> [ZeroGenSummary EXCEPT
                                             !.totalBusinesses = Len(queue)],
                              results |-> <<>>, calls |-> <<>> ]
                  /\ stage' = "generation"
  /\ UNCHANGED <<storeVars, result, completed, responses, clock, upload, limiter, sent, hosting, disc, dep, discLog, execs>>

StartGeneration == StartGenerationWith(1..MaxLimit, TemplatesPerBusinessChoices)

\* generateForBusiness reporting success whatever it generated.
BusinessGeneratedAlwaysSuccess(g, n) ==
  [g EXCEPT !.summary = [@ EXCEPT !.successfulGenerations = @ + 1,
                                  !.totalWebsitesCreated = @ + n],
            !.results = Append(@, [ businessId |-> g.queue[g.b].id,
                                    success |-> TRUE,
                                    websitesGenerated |-> n ]),
            !.b = g.b + 1, !.t = 1, !.websitesGenerated = 0]

\* generateForBusinesses not counting a failed business.
BusinessGeneratedSkipsFailed(g, n) ==
  [g EXCEPT !.summary = IF n > 0
                          THEN [@ EXCEPT !.successfulGenerations = @ + 1,
                                         !.totalWebsitesCreated = @ + n]
                          ELSE @,
            !.results = Append(@, [ businessId |-> g.queue[g.b].id,
                                    success |-> n > 0,
                                    websitesGenerated |-> n ]),
            !.b = g.b + 1, !.t = 1, !.websitesGenerated = 0]

\* generateForBusiness returned: the bookkeeping of generateForBusinesses.
BusinessGenerated(g, n) ==
  [g EXCEPT !.summary = IF n > 0
                          THEN [@ EXCEPT !.successfulGenerations = @ + 1,
                                         !.totalWebsitesCreated = @ + n]
                          ELSE [@ EXCEPT !.failedGenerations = @ + 1],
            !.results = Append(@, [ businessId |-> g.queue[g.b].id,
                                    success |-> n > 0,
                                    websitesGenerated |-> n ]),
            !.b = g.b + 1, !.t = 1, !.websitesGenerated = 0]

\* The row generateForBusiness hands to insertWebsite for the t-th
\* template, numbered from the first variation.
GeneratedWebsiteFirstVariation(business, templates, t) ==
  [ business_id |-> business.id,
    template_name |-> templates[t],
    variation_number |-> 1 ]

\* The row generateForBusiness hands to insertWebsite for the t-th
\* template (t counts from 1, the loop index i from 0: i + 1 = t).
GeneratedWebsite(business, templates, t) ==
  [ business_id |-> business.id,
    template_name |-> templates[t],
    variation_number |-> t ]

\* One iteration of generateForBusiness' template loop: the AI client answers
\* (ok) or raises, with ok drawn from oks; an answer is stored with
\* insertWebsite.
GenerateStepWith(oks) ==
  /\ stage = "generation"
  /\ gen.b <= Len(gen.queue)
  /\ \E ok \in oks :
       LET business == gen.queue[gen.b]
           r == InsertWebsite(businesses, websites,
                              GeneratedWebsite(business, gen.templates, gen.t))
           stored == ok /\ r.error = NULL
           n == IF stored THEN gen.websitesGenerated + 1 ELSE gen.websitesGenerated
       IN  /\ businesses' = IF stored THEN r.businesses ELSE businesses
           /\ websites' = IF stored THEN r.websites ELSE websites
           /\ completed' = IF stored
                             THEN Complete(completed, business.id, "website_generated")
                             ELSE completed
           /\ LET g == [gen EXCEPT !.calls = Append(@,
                                [ businessId |-> business.id,
                                  template |-> gen.templates[gen.t],
                                  variation |-> gen.t,
                                  ok |-> ok, stored |-> stored,
                                  before |-> CountWebsites(websites, business.id) ])]
              IN  gen' = IF gen.t = Len(gen.templates)
                           THEN BusinessGenerated(g, n)
                           ELSE [g EXCEPT !.t = gen.t + 1, !.websitesGenerated = n]
  /\ UNCHANGED <<outreach, result, stage, runs, responses, clock, upload, limiter, sent, hosting, disc, dep, discLog, execs>>

\* The step with a client that may answer or raise.
GenerateStep == GenerateStepWith(BOOLEAN)

\* The AI providers of GeneratorConfig.provider, and what their key can be.
Providers == {"claude", "gemini"}
ApiKeys == {NULL, "", "key"}

\* this.isMockMode = !this.apiKey, in both clients.
isInMockMode(apiKey) == apiKey \in {NULL, ""}

\* What generateWebsite can do: TRUE is an HTML document returned, FALSE an
\* error raised.  ClaudeClient in mock mode returns generateMockWebsite's
\* document; GeminiClient in mock mode throws 'GEMINI_API_KEY is not set';
\* with a key either client asks its service, which answers or fails.
generateWebsite(provider, apiKey) ==
  IF ~isInMockMode(apiKey) THEN BOOLEAN
  ELSE IF provider = "gemini" THEN {FALSE}
  ELSE {TRUE}

\* new GeneratorService({ provider }) with the provider's key as configured,
\* then generateForBusinesses on the businesses needing websites.
StartProviderGeneration ==
  /\ stage = "idle"
  /\ runs < MaxRuns
  /\ runs' = runs + 1
  /\ \E provider \in Providers, apiKey \in ApiKeys, tpb \in TemplatesPerBusinessChoices :
       LET queue == getBusinessesNeedingWebsites(MaxLimit)
       IN  /\ queue # <<>>
           /\ gen' = [ queue |-> queue, b |-> 1, t |-> 1,
                       templates |-> getTemplatesToUse(tpb),
                       websitesGenerated |-> 0,
                       summary |-> [ZeroGenSummary EXCEPT !.totalBusinesses = Len(queue)],
                       results |-> <<>>, calls |-> <<>>,
                       provider |-> provider, apiKey |-> apiKey ]
           /\ stage' = "generation"
  /\ UNCHANGED <<storeVars, result, completed, responses, clock, upload, limiter, sent, hosting,
                 disc, dep, discLog, execs>>

\* The step with the configured provider's client.
ProviderGenerateStep ==
  /\ "provider" \in DOMAIN gen
  /\ GenerateStepWith(generateWebsite(gen.provider, gen.apiKey))

GenerateReturn ==
  /\ stage = "generation"
  /\ gen.b > Len(gen.queue)
  /\ stage' = "idle"
  /\ UNCHANGED <<storeVars, result, completed, runs, responses, clock, upload, limiter, sent, hosting, disc, gen, dep, discLog, execs>>

\* ----------------------------------------------------------- deployment
\* The urls the hosting client hands back.
Urls == {"https://a.vercel.app", "https://b.vercel.app"}

\* dep: i is the position in deployPending's loop; phase is "deploying" while
\* deployWebsite waits for the hosting client; results are the entries pushed
\* so far.  adapterCalls (the websites the hosting client was called for) and
\* marked (the websites markWebsiteDeployed updated) are history.
IdleDep ==
  [ queue |-> <<>>, i |-> 0, phase |-> "idle", limit |-> 0, total |-> 0,
    successful |-> 0, failed |-> 0, results |-> <<>>,
    adapterCalls |-> <<>>, marked |-> 0 ]

\* runDeployment + deployPending: query the queue; return at once when empty.
StartDeployment ==
  /\ stage = "idle"
  /\ runs < MaxRuns
  /\ runs' = runs + 1
  /\ \E limit \in 1..MaxLimit :
       LET pendingWebsites == getWebsitesPendingDeployment(limit)
       IN  IF pendingWebsites = <<>>
             THEN /\ dep' = IdleDep
                  /\ stage' = "idle"
             ELSE /\ dep' = [IdleDep EXCEPT !.queue = pendingWebsites, !.i = 1,
                                            !.phase = "next", !.limit = limit,
                                            !.total = Len(pendingWebsites)]
                  /\ stage' = "deployment"
  /\ UNCHANGED <<storeVars, result, completed, responses, clock, upload, limiter, sent, hosting, disc, gen, discLog, execs>>

\* deployPending gives up when a website's business is not found.
BusinessNotFoundAbort(d, website) ==
  [d EXCEPT !.failed = @ + 1,
            !.results = Append(@, [ websiteId |-> website.id, success |-> FALSE,
                                    url |-> "", error |-> "Business not found" ]),
            !.i = Len(d.queue) + 1]

\* deployPending's branch for a website whose business is not found.
BusinessNotFound(d, website) ==
  [d EXCEPT !.failed = @ + 1,
            !.results = Append(@, [ websiteId |-> website.id, success |-> FALSE,
                                    url |-> "", error |-> "Business not found" ]),
            !.i = @ + 1]

\* DeploymentService.deployWebsite once the hosting client answered: answer
\* is the url of a successful deployment, or NULL when the client reported a
\* failure or raised.  [businesses, websites, success, url, marked]
DeployWebsiteNoMark(bs, ws, websiteId, answer) ==
  [ businesses |-> bs, websites |-> ws, success |-> answer # NULL,
    url |-> IF answer = NULL THEN "" ELSE answer, marked |-> FALSE ]

\* deployWebsite calling markWebsiteDeployed whatever the result says.
DeployWebsiteMarksAnyResult(bs, ws, websiteId, answer) ==
  LET r == MarkWebsiteDeployed(bs, ws, websiteId, IF answer = NULL THEN "" ELSE answer)
  IN  [ businesses |-> r.businesses, websites |-> r.websites,
        success |-> answer # NULL, url |-> IF answer = NULL THEN "" ELSE answer,
        marked |-> r.found ]

DeployWebsite(bs, ws, websiteId, answer) ==
  LET r == MarkWebsiteDeployed(bs, ws, websiteId, answer)
  IN  IF answer = NULL
        THEN [ businesses |-> bs, websites |-> ws, success |-> FALSE, url |-> "",
               marked |-> FALSE ]
        ELSE [ businesses |-> r.businesses, websites |-> r.websites,
               success |-> TRUE, url |-> answer, marked |-> r.found ]

\* One iteration of deployPending's loop up to the call of the hosting
\* client: look the business up, then start deployWebsite.
DeployStep ==
  /\ stage = "deployment"
  /\ dep.phase = "next"
  /\ dep.i <= Len(dep.queue)
  /\ LET website == dep.queue[dep.i]
     IN  dep' = IF RowIndex(businesses, website.business_id) = 0
                  THEN BusinessNotFound(dep, website)
                  ELSE [dep EXCEPT !.phase = "deploying",
                                   !.adapterCalls = Append(@, website.id)]
  /\ UNCHANGED <<storeVars, completed, result, stage, runs, responses, clock, upload, limiter, sent, hosting, disc, gen, discLog, execs>>

\* The rest of the iteration: the hosting client answers with a url, answers
\* success = false, or raises; deployWebsite records a success in the store.
DeployDone ==
  /\ stage = "deployment"
  /\ dep.phase = "deploying"
  /\ \E answer \in Urls \cup {NULL} :
       LET website == dep.queue[dep.i]
           r == DeployWebsite(businesses, websites, website.id, answer)
       IN  /\ businesses' = r.businesses
           /\ websites' = r.websites
           /\ completed' = IF r.marked
                             THEN Complete(completed, website.business_id, "deployed")
                             ELSE completed
           /\ dep' = [dep EXCEPT
                        !.successful = IF r.success THEN @ + 1 ELSE @,
                        !.failed = IF r.success THEN @ ELSE @ + 1,
                        !.marked = IF r.marked THEN @ + 1 ELSE @,
                        !.results = Append(@, [ websiteId |-> website.id,
                                                success |-> r.success, url |-> r.url,
                                                error |-> IF r.success THEN NULL
                                                          ELSE "adapter" ]),
                        !.phase = "next",
                        !.i = @ + 1]
  /\ UNCHANGED <<outreach, result, stage, runs, responses, clock, upload, limiter, sent, hosting, disc, gen, discLog, execs>>

\* deployPending(limit) is called again and again with one limit: the first
\* call fixes it, every later call uses the same.
RepeatDeployPending ==
  /\ stage = "idle"
  /\ \E limit \in (IF dep.limit = 0 THEN 1..MaxLimit ELSE {dep.limit}) :
       LET pendingWebsites == getWebsitesPendingDeployment(limit)
       IN  IF pendingWebsites = <<>>
             THEN /\ dep' = [IdleDep EXCEPT !.limit = limit]
                  /\ stage' = "idle"
             ELSE /\ dep' = [IdleDep EXCEPT !.queue = pendingWebsites, !.i = 1,
                                            !.phase = "next", !.limit = limit,
                                            !.total = Len(pendingWebsites)]
                  /\ stage' = "deployment"
  /\ UNCHANGED <<storeVars, result, completed, runs, responses, clock, upload, limiter,
                 sent, hosting, disc, gen, discLog, execs>>

\* The rest of an iteration when the hosting service fails for the websites
\* in responses.failing on every attempt and deploys every other website.
DeployDoneScripted ==
  /\ stage = "deployment"
  /\ dep.phase = "deploying"
  /\ LET website == dep.queue[dep.i]
         answer  == IF website.id \in responses.failing THEN NULL
                    ELSE "https://a.vercel.app"
         r       == DeployWebsite(businesses, websites, website.id, answer)
     IN  /\ businesses' = r.businesses
         /\ websites' = r.websites
         /\ completed' = IF r.marked
                           THEN Complete(completed, website.business_id, "deployed")
                           ELSE completed
         /\ dep' = [dep EXCEPT
                      !.successful = IF r.success THEN @ + 1 ELSE @,
                      !.failed = IF r.success THEN @ ELSE @ + 1,
                      !.marked = IF r.marked THEN @ + 1 ELSE @,
                      !.results = Append(@, [ websiteId |-> website.id,
                                              success |-> r.success, url |-> r.url,
                                              error |-> IF r.success THEN NULL
                                                        ELSE "adapter" ]),
                      !.phase = "next",
                      !.i = @ + 1]
  /\ UNCHANGED <<outreach, result, stage, runs, responses, clock, upload, limiter, sent,
                 hosting, disc, gen, discLog, execs>>

DeployReturn ==
  /\ stage = "deployment"
  /\ dep.phase = "next"
  /\ dep.i > Len(dep.queue)
  /\ stage' = "idle"
  /\ UNCHANGED <<storeVars, result, completed, runs, responses, clock, upload, limiter, sent, hosting, disc, gen, dep, discLog, execs>>

\* --------------------------------------------------------- interruption
\* The process dies while a stage runs: what the stage held in memory is
\* gone, the store is as the last completed write left it.
Interrupted ==
  /\ stage' = "idle"
  /\ disc' = IdleDisc
  /\ gen' = IdleGen
  /\ dep' = IdleDep
  /\ UNCHANGED <<outreach, result, completed, runs, responses, clock, upload, limiter, sent,
                 hosting, discLog, execs>>

\* The process dies between two steps of a stage.
Crash ==
  /\ stage # "idle"
  /\ Interrupted
  /\ UNCHANGED <<businesses, websites, execs>>

\* The process dies inside insertWebsite, between its INSERT and its
\* updateBusinessStatus, after the AI client answered.
CrashInInsertWebsite ==
  /\ stage = "generation"
  /\ gen.b <= Len(gen.queue)
  /\ LET r == InsertWebsiteKeepStatus(businesses, websites,
                                      [ business_id |-> gen.queue[gen.b].id,
                                        template_name |-> gen.templates[gen.t],
                                        variation_number |-> gen.t ])
     IN  /\ r.error = NULL
         /\ businesses' = r.businesses
         /\ websites' = r.websites
  /\ Interrupted

\* ------------------------------------------------- deployment, mock mode
\* sanitizeSubdomain: toLowerCase(), every run of characters outside a-z0-9
\* becomes one '-', a leading and a trailing '-' are dropped, then the first
\* 50 characters are kept.
SanitizeTable ==
  ("Joe" :> "joe") @@ ("JOE" :> "joe") @@ ("joe" :> "joe") @@ ("Al" :> "al")
  @@ ("Joe LLC" :> "joe-llc") @@ ("Bo's Cuts" :> "bo-s-cuts")
  @@ ("Café" :> "caf") @@ ("CAFÉ" :> "caf")

sanitizeSubdomain(businessName) == SanitizeTable[businessName]

\* sanitizeSubdomain on a name given character by character.
\* String.prototype.toLowerCase() on one character.
LowerChar(c) ==
  IF c = "A" THEN "a" ELSE IF c = "B" THEN "b" ELSE IF c = "É" THEN "é" ELSE c

\* [a-z0-9], for the characters of the model.
IsAlnum(c) == c \in {"a", "b", "0", "1"}

\* .replace(/[^a-z0-9]+/g, '-'): lastHyphen tells that the run the previous
\* character belongs to has already given its '-'.
RECURSIVE CollapseRuns(_, _)
CollapseRuns(chars, lastHyphen) ==
  IF chars = <<>> THEN <<>>
  ELSE IF IsAlnum(Head(chars)) THEN <<Head(chars)>> \o CollapseRuns(Tail(chars), FALSE)
  ELSE IF lastHyphen THEN CollapseRuns(Tail(chars), TRUE)
  ELSE <<"-">> \o CollapseRuns(Tail(chars), TRUE)

\* .replace(/^-|-$/g, '')
StripHyphens(chars) ==
  LET front == IF chars # <<>> /\ Head(chars) = "-" THEN Tail(chars) ELSE chars
  IN  IF front # <<>> /\ front[Len(front)] = "-"
        THEN SubSeq(front, 1, Len(front) - 1)
        ELSE front

SubdomainLimit == 50

\* .slice(0, 50)
SliceLimit(chars) ==
  IF Len(chars) <= SubdomainLimit THEN chars ELSE SubSeq(chars, 1, SubdomainLimit)

SanitizeChars(businessName) ==
  SliceLimit(StripHyphens(CollapseRuns([k \in 1..Len(businessName) |->
                                         LowerChar(businessName[k])], FALSE)))

\* `${sanitized}-v${variationNumber}`, which createProject uses as the
\* project name.
ProjectNameChars(businessName, variationNumber) ==
  SanitizeChars(businessName) \o <<"-", "v", variationNumber>>

MOCK_DOMAIN == "mock-deploy.local"

\* mockDeployWebsite: always succeeds, at a url made of the business name.
mockDeployWebsite(businessName) ==
  "https://" \o sanitizeSubdomain(businessName) \o "." \o MOCK_DOMAIN

\* deployWebsiteById(websiteId) with the hosting client in mock mode: the two
\* lookups, then deployWebsite with the mock client's answer.  In mock mode
\* the client's promises are already resolved, so no other handler runs
\* between the lookups and markWebsiteDeployed.  result.value.before is the
\* row's deployed_at when the call started.
deployWebsiteById(websiteId) ==
  LET w == RowIndex(websites, websiteId)
      b == IF w = 0 THEN 0 ELSE RowIndex(businesses, websites[w].business_id)
  IN  IF w = 0
        THEN /\ result' = [op |-> "deployWebsiteById", error |-> "Website not found",
                           value |-> [success |-> FALSE, url |-> "",
                                      websiteId |-> websiteId, before |-> NULL]]
             /\ UNCHANGED <<storeVars, completed, pipeVars>>
        ELSE IF b = 0
          THEN /\ result' = [op |-> "deployWebsiteById",
                             error |-> "Business not found for website",
                             value |-> [success |-> FALSE, url |-> "",
                                        websiteId |-> websiteId, before |-> NULL]]
               /\ UNCHANGED <<storeVars, completed, pipeVars>>
          ELSE LET r == DeployWebsite(businesses, websites, websiteId,
                                      mockDeployWebsite(businesses[b].name))
               IN  /\ businesses' = r.businesses
                   /\ websites' = r.websites
                   /\ result' = [op |-> "deployWebsiteById", error |-> NULL,
                                 value |-> [success |-> r.success, url |-> r.url,
                                            websiteId |-> websiteId,
                                            before |-> websites[w].deployed_at]]
                   /\ completed' = Complete(completed, websites[w].business_id, "deployed")
                   /\ UNCHANGED <<outreach, pipeVars>>

\* ------------------------------------------------------- hosting client
\* hosting: mock is the client's mode (no token); projects are the names of
\* the projects the service holds; phase is "post" or "get" while createProject
\* waits for the service; answers are the status codes the call got so far;
\* deployments are the production deployments the service accepted, in order,
\* each with the project it went to and the website it carries.
IdleHosting(mock) ==
  [ mock |-> mock, projects |-> {}, phase |-> "idle", projectName |-> "",
    answers |-> <<>>, deployments |-> <<>> ]

\* `${sanitized}-v${variationNumber}`
generateSubdomain(businessName, variationNumber) ==
  sanitizeSubdomain(businessName) \o "-v" \o Digit[variationNumber + 1]

\* A ProjectInfo; its projectId is not modelled.
ProjectInfo(name, subdomain) == [name |-> name, subdomain |-> subdomain]

\* createProject or getProject returned project / raised error.
ProjectResult(projectName, answers, project, error) ==
  [ op |-> "createProject", error |-> error,
    value |-> [requested |-> projectName, answers |-> answers, project |-> project] ]

NoProject == ProjectInfo("", "")

\* createProject up to its request: in mock mode mockCreateProject answers at
\* once, otherwise POST /v9/projects is sent.
createProject(businessName, variationNumber) ==
  LET projectName == generateSubdomain(businessName, variationNumber)
  IN  /\ hosting.phase = "idle"
      /\ IF hosting.mock
           THEN /\ result' = ProjectResult(projectName, <<>>,
                                           ProjectInfo(projectName, projectName), NULL)
                /\ UNCHANGED hosting
           ELSE /\ hosting' = [hosting EXCEPT !.phase = "post",
                                              !.projectName = projectName,
                                              !.answers = <<>>]
                /\ UNCHANGED result
      /\ UNCHANGED <<storeVars, completed, stage, runs, responses, disc, gen, dep,
                     discLog, clock, upload, limiter, sent, execs>>

\* A 409 that is raised like any other error.
ConflictRaised(h) ==
  [ hosting |-> [h EXCEPT !.phase = "idle", !.answers = Append(@, "409")],
    raised  |-> TRUE ]

\* error.response?.status === 409: return this.getProject(projectName).
\* [hosting, raised]
Conflict(h) ==
  [ hosting |-> [h EXCEPT !.phase = "get", !.answers = Append(@, "409")],
    raised  |-> FALSE ]

\* The service answers the POST: the project is created, or it exists (409),
\* or the request fails otherwise (500 stands for every other failure).
PostAnswered ==
  /\ hosting.phase = "post"
  /\ \E status \in {"200", "409", "500"} :
       LET name == hosting.projectName
           answers == Append(hosting.answers, status)
       IN  /\ status = "200" => name \notin hosting.projects
           /\ status = "409" => name \in hosting.projects
           /\ IF status = "200"
                THEN /\ hosting' = [hosting EXCEPT !.phase = "idle", !.answers = answers,
                                                   !.projects = @ \cup {name}]
                     /\ result' = ProjectResult(name, answers, ProjectInfo(name, name), NULL)
              ELSE IF status = "409"
                THEN /\ hosting' = Conflict(hosting).hosting
                     /\ result' = IF Conflict(hosting).raised
                                    THEN ProjectResult(name, answers, NoProject,
                                                       "create project failed")
                                    ELSE result
                ELSE /\ hosting' = [hosting EXCEPT !.phase = "idle", !.answers = answers]
                     /\ result' = ProjectResult(name, answers, NoProject,
                                                "create project failed")
  /\ UNCHANGED <<storeVars, completed, stage, runs, responses, disc, gen, dep,
                 discLog, clock, upload, limiter, sent, execs>>

\* The service answers getProject's GET: the project, or 404, or a failure.
GetAnswered ==
  /\ hosting.phase = "get"
  /\ \E status \in {"200", "404", "500"} :
       LET name == hosting.projectName
           answers == Append(hosting.answers, status)
       IN  /\ status = "200" => name \in hosting.projects
           /\ status = "404" => name \notin hosting.projects
           /\ hosting' = [hosting EXCEPT !.phase = "idle", !.answers = answers]
           /\ result' = IF status = "200"
                          THEN ProjectResult(name, answers, ProjectInfo(name, name), NULL)
                          ELSE ProjectResult(name, answers, NoProject, "get project failed")
  /\ UNCHANGED <<storeVars, completed, stage, runs, responses, disc, gen, dep,
                 discLog, clock, upload, limiter, sent, execs>>

\* Somebody else removes a project from the hosting account.
ProjectRemoved ==
  /\ \E name \in hosting.projects :
       hosting' = [hosting EXCEPT !.projects = @ \ {name}]
  /\ UNCHANGED <<storeVars, result, completed, stage, runs, responses, disc, gen, dep,
                 discLog, clock, upload, limiter, sent, execs>>

\* ------------------------------------------------- retry and the upload
\* upload: caller is "retry" for a plain retry(fn, options) call and
\* "deployWebsite" for VercelClient.deployWebsite; phase is "call" while fn is
\* in flight, "sleep" during retry's backoff, "poll" while getDeploymentStatus
\* is in flight, "wait" during waitForDeployment's sleep, "done" when the
\* caller has its outcome.  attempt and currentDelay are retry's locals;
\* waited is Date.now() - startTime; status is the last status polled.
\* answers (what fn met, in call order), waits (the delays slept, in order)
\* and polls (status requests sent) are history.
NoOutcome == [success |-> FALSE, error |-> NULL, raised |-> FALSE, timedOut |-> FALSE]

IdleUpload ==
  [ caller |-> "none", phase |-> "idle", maxAttempts |-> 0, delayMs |-> 0,
    backoffMultiplier |-> 0, attempt |-> 0, currentDelay |-> 0, answers |-> <<>>,
    waits |-> <<>>, waited |-> 0, polls |-> 0, status |-> "none",
    outcome |-> NoOutcome ]

\* waitForDeployment's defaults.
maxWaitMs == 120000
pollIntervalMs == 3000

\* What a request to the hosting service can meet: success, a permanent
\* error (401 bad credential, 400 malformed request), a transient one (500).
Permanent == {"401", "400"}
Transient == {"500"}
FnAnswers == {"ok"} \cup Permanent \cup Transient

DeploymentStatuses == {"QUEUED", "BUILDING", "READY", "ERROR", "CANCELED"}
Terminal == {"READY", "ERROR", "CANCELED"}

\* The for loop of retry is entered: attempt = 1, fn is called.
RetryBegins(caller, maxAttempts, delayMs, backoffMultiplier) ==
  [ IdleUpload EXCEPT !.caller = caller, !.phase = "call",
                      !.maxAttempts = maxAttempts, !.delayMs = delayMs,
                      !.backoffMultiplier = backoffMultiplier,
                      !.attempt = 1, !.currentDelay = delayMs ]

UploadFrame ==
  UNCHANGED <<storeVars, result, completed, stage, runs, responses, disc, gen, dep,
              discLog, clock, hosting, limiter, sent, execs>>

\* retry(fn, options) is called.
retry(maxAttempts, delayMs, backoffMultiplier) ==
  /\ upload.phase \in {"idle", "done"}
  /\ upload' = RetryBegins("retry", maxAttempts, delayMs, backoffMultiplier)
  /\ UploadFrame

\* VercelClient.deployWebsite is called: mockDeployWebsite answers in mock
\* mode, otherwise the upload starts under retry with { 3, 2000, 2 }.
clientDeployWebsite ==
  /\ upload.phase \in {"idle", "done"}
  /\ upload' = IF hosting.mock
                 THEN [IdleUpload EXCEPT !.caller = "deployWebsite", !.phase = "done",
                                         !.outcome = [NoOutcome EXCEPT !.success = TRUE]]
                 ELSE RetryBegins("deployWebsite", 3, 2000, 2)
  /\ UploadFrame

\* retry returned fn's value: a plain retry is done; deployWebsite goes on to
\* waitForDeployment, whose first loop test (0 < maxWaitMs) passes.
RetryReturned(u) ==
  IF u.caller = "retry"
    THEN [u EXCEPT !.phase = "done", !.outcome = [NoOutcome EXCEPT !.success = TRUE]]
    ELSE [u EXCEPT !.phase = "poll", !.waited = 0, !.polls = 1]

\* An error reached the caller: retry raises it, deployWebsite's catch turns
\* it into a result.
Failed(u, error) ==
  [u EXCEPT !.phase = "done",
            !.outcome = [NoOutcome EXCEPT !.error = error,
                                          !.raised = (u.caller = "retry")]]

\* retry's catch: sleep if attempts remain, otherwise throw lastError.
FnFailed(u, error) ==
  IF u.attempt < u.maxAttempts
    THEN [u EXCEPT !.phase = "sleep"]
    ELSE Failed(u, error)

\* fn() settles.
FnAnswered ==
  /\ upload.phase = "call"
  /\ \E answer \in FnAnswers :
       LET u == [upload EXCEPT !.answers = Append(@, answer)]
       IN  upload' = IF answer = "ok" THEN RetryReturned(u) ELSE FnFailed(u, answer)
  /\ UploadFrame

\* A backoff that stays at delayMs.
BackoffConstant(u) ==
  [u EXCEPT !.waits = Append(@, u.delayMs), !.attempt = @ + 1, !.phase = "call"]

\* sleep(currentDelay) is over: currentDelay *= backoffMultiplier, next attempt.
Backoff(u) ==
  [u EXCEPT !.waits = Append(@, u.currentDelay),
            !.currentDelay = @ * u.backoffMultiplier,
            !.attempt = @ + 1, !.phase = "call"]

SleepDone ==
  /\ upload.phase = "sleep"
  /\ upload' = Backoff(upload)
  /\ UploadFrame

\* deployWebsite's return after waitForDeployment gave finalStatus.
Deployed(u, finalStatus, timedOut) ==
  [u EXCEPT !.phase = "done",
            !.outcome = IF finalStatus = "READY"
                          THEN [NoOutcome EXCEPT !.success = TRUE]
                          ELSE [NoOutcome EXCEPT !.error = finalStatus,
                                                 !.timedOut = timedOut]]

\* getDeploymentStatus settles, latency after it was sent: it raises, or the
\* status is terminal and returned, or waitForDeployment sleeps.
StatusAnswered ==
  /\ upload.phase = "poll"
  /\ \E answer \in DeploymentStatuses \cup Transient, latency \in {0, pollIntervalMs} :
       LET u == [upload EXCEPT !.waited = @ + latency]
       IN  upload' = IF answer \notin DeploymentStatuses THEN Failed(u, answer)
                     ELSE IF answer \in Terminal
                       THEN Deployed([u EXCEPT !.status = answer], answer, FALSE)
                       ELSE [u EXCEPT !.status = answer, !.phase = "wait"]
  /\ UploadFrame

\* A waitForDeployment that raises when the time is up.
TimedOutRaises(u) ==
  [u EXCEPT !.phase = "done",
            !.outcome = [NoOutcome EXCEPT !.error = "timeout", !.raised = TRUE,
                                          !.timedOut = TRUE]]

\* The loop test failed: waitForDeployment returns 'ERROR'.
TimedOut(u) == Deployed(u, "ERROR", TRUE)

\* sleep(pollIntervalMs) is over, then the loop test.
PollSleepDone ==
  /\ upload.phase = "wait"
  /\ LET u == [upload EXCEPT !.waited = @ + pollIntervalMs]
     IN  upload' = IF u.waited < maxWaitMs
                     THEN [u EXCEPT !.phase = "poll", !.polls = @ + 1]
                     ELSE TimedOut(u)
  /\ UploadFrame

\* --------------------------------------------------------- rate limiter
\* limiter: maxTokens, refillRate, lastRefill as in the class; tokens in
\* thousandths of a token and times in ms, so that refill's
\* tokens + elapsed / 1000 * refillRate is exact; now is Date.now(); wake[c] is
\* when caller c's sleep inside acquire is due (-1: c is not inside acquire);
\* done (the time and the caller of each finished acquire, in order) is history.
Callers == {"a", "b"}

\* No RateLimiter has been constructed.
NoLimiter == [made |-> FALSE]

MaxTime == 2000
MaxAcquires == 4

\* new RateLimiter(requestsPerSecond)
NewRateLimiter(requestsPerSecond) ==
  /\ ~limiter.made
  /\ limiter' = [ made |-> TRUE, maxTokens |-> requestsPerSecond,
                  refillRate |-> requestsPerSecond,
                  tokens |-> requestsPerSecond * 1000, lastRefill |-> 0, now |-> 0,
                  wake |-> [c \in Callers |-> -1], done |-> <<>> ]
  /\ UNCHANGED <<storeVars, result, completed, stage, runs, responses, disc, gen, dep,
                 discLog, clock, hosting, upload, sent, execs>>

\* refill()
Refill(l) ==
  [l EXCEPT !.tokens = Min(l.maxTokens * 1000, l.tokens + (l.now - l.lastRefill) * l.refillRate),
            !.lastRefill = l.now]

\* acquire() up to its await: refill, then either sleep for
\* (1 - tokens) * (1000 / refillRate) ms or take a token at once.
AcquireBegins(l, c) ==
  LET r == Refill(l)
  IN  IF r.tokens < 1000
        THEN [r EXCEPT !.wake[c] = r.now + ((1000 - r.tokens) \div r.refillRate)]
        ELSE [r EXCEPT !.tokens = @ - 1000,
                       !.done = Append(@, [t |-> r.now, by |-> c])]

acquire(c) ==
  /\ limiter.made
  /\ limiter.wake[c] = -1
  /\ Len(limiter.done) + Cardinality({d \in Callers : limiter.wake[d] # -1}) < MaxAcquires
  /\ limiter' = AcquireBegins(limiter, c)
  /\ UNCHANGED <<storeVars, result, completed, stage, runs, responses, disc, gen, dep,
                 discLog, clock, hosting, upload, sent, execs>>

\* acquire() after its sleep: refill again and take the token.
AcquireWakes(c) ==
  /\ limiter.made
  /\ limiter.wake[c] # -1
  /\ limiter.now >= limiter.wake[c]
  /\ LET r == Refill(limiter)
     IN  limiter' = [r EXCEPT !.tokens = @ - 1000, !.wake[c] = -1,
                              !.done = Append(@, [t |-> r.now, by |-> c])]
  /\ UNCHANGED <<storeVars, result, completed, stage, runs, responses, disc, gen, dep,
                 discLog, clock, hosting, upload, sent, execs>>

\* Time passes, a quarter or half a second at once.
TimePasses ==
  /\ limiter.made
  /\ \E d \in {250, 500} :
       /\ limiter.now + d <= MaxTime
       /\ limiter' = [limiter EXCEPT !.now = @ + d]
  /\ UNCHANGED <<storeVars, result, completed, stage, runs, responses, disc, gen, dep,
                 discLog, clock, hosting, upload, sent, execs>>

\* -------------------------------------------------- adapters' requests
MaxSent == 2

\* The acquisitions caller c finished, and the requests it sent.
AcquiredBy(c) == Cardinality({k \in 1..Len(limiter.done) : limiter.done[k].by = c})
SentBy(adapter, c) ==
  Cardinality({k \in 1..Len(sent) : sent[k].adapter = adapter /\ sent[k].by = c})

\* GooglePlacesClient in live mode, an async call c of searchBusinesses,
\* getPlaceDetails or geocode at `await this.rateLimiter.acquire()`.
PlacesAcquire(c) ==
  /\ limiter.made
  /\ AcquiredBy(c) = SentBy("places", c)
  /\ acquire(c)

\* The same call at the `await this.client.get(...)` that follows.
PlacesGet(c) ==
  /\ limiter.made
  /\ limiter.wake[c] = -1
  /\ AcquiredBy(c) = SentBy("places", c) + 1
  /\ Len(sent) < MaxSent
  /\ sent' = Append(sent, [adapter |-> "places", by |-> c])
  /\ UNCHANGED <<storeVars, result, completed, stage, runs, responses, disc, gen, dep,
                 discLog, clock, hosting, upload, limiter, execs>>

\* ClaudeClient.generateWebsite in live mode: this.client.messages.create.
ClaudeMessagesCreate(c) ==
  /\ Len(sent) < MaxSent
  /\ sent' = Append(sent, [adapter |-> "claude", by |-> c])
  /\ UNCHANGED <<storeVars, result, completed, stage, runs, responses, disc, gen, dep,
                 discLog, clock, hosting, upload, limiter, execs>>

\* VercelClient.deployWebsite in live mode: POST /v13/deployments.
VercelPost(c) ==
  /\ Len(sent) < MaxSent
  /\ sent' = Append(sent, [adapter |-> "vercel", by |-> c])
  /\ UNCHANGED <<storeVars, result, completed, stage, runs, responses, disc, gen, dep,
                 discLog, clock, hosting, upload, limiter, execs>>

\* ---------------------------------------------------------- business spec
Sources == {"google_places", "ms_sos"}
PlaceIds == {"P1", "P2"}

BizInserts ==
  [name : {"Joe"}, source : Sources, source_id : PlaceIds \cup {NULL},
   google_place_id : {NULL, "P1"}]
  \cup { [id |-> "x1", name |-> "Joe", source |-> "ms_sos"] }

BizBatchItems ==
  { [name |-> "Joe", source |-> "google_places", source_id |-> p, google_place_id |-> g]
      : p \in PlaceIds, g \in {NULL, "P1"} }

BizBatches ==
  UNION { [1..n -> BizBatchItems] : n \in 1..MaxBatch }

BizUpdates ==
  UNION { [source : Sources, source_id : PlaceIds \cup {NULL}],
          [source_id : PlaceIds \cup {NULL}],
          [google_place_id : {NULL, "P1"}],
          [status : {"enriched"}] }

InitWithHosting(bs, resp, h) ==
  /\ businesses = bs
  /\ websites = <<>>
  /\ outreach = <<>>
  /\ result = [op |-> "none", error |-> NULL, value |-> NULL]
  /\ completed = [b \in {} |-> {}]
  /\ stage = "idle"
  /\ runs = 0
  /\ responses = resp
  /\ disc = IdleDisc
  /\ gen = IdleGen
  /\ dep = IdleDep
  /\ discLog = <<>>
  /\ clock = 1
  /\ hosting = h
  /\ upload = IdleUpload
  /\ limiter = NoLimiter
  /\ sent = <<>>
  /\ execs = [e \in Execs |-> IdleDisc]

InitWith(bs, resp) == InitWithHosting(bs, resp, IdleHosting(TRUE))

InitStore == InitWith(<<>>, <<>>)

vars == <<businesses, websites, outreach, result, completed,
          stage, runs, responses, disc, gen, dep, discLog, clock, hosting,
          upload, limiter, sent, execs>>

NextBiz ==
  \/ \E data \in BizInserts : insertBusiness(data)
  \/ \E batch \in BizBatches : insertBusinesses(batch)
  \/ \E id \in {"u1", "u2", "x1"}, data \in BizUpdates : updateBusiness(id, data)

SpecBiz == InitStore /\ [][NextBiz]_vars

\* ------------------------------------------------------- store spec (Spec)
\* The website lifecycle on businesses that discovery has inserted.
WebBizInserts ==
  { [name |-> "Joe", source |-> "google_places", source_id |-> p, google_place_id |-> p,
     has_website |-> 0, status |-> "discovered"] : p \in PlaceIds }

WebInserts ==
  [business_id : {"u1", "u2"}, template_name : {"suspended-dark"}]
  \cup [business_id : {"u1"}, template_name : {"suspended-dark"},
        preview_url : {"https://a.vercel.app"}]

WebUpdates ==
  UNION { {[x \in {} |-> NULL]},
          [preview_url : {NULL, "https://a.vercel.app"}],
          [deployed_at : {NULL, Now}],
          [preview_url : {NULL, "https://a.vercel.app"}, deployed_at : {NULL, Now}] }

OutreachInserts == [business_id : {"u1", "u2"}, method : {"email"}]

Next ==
  \/ \E data \in WebBizInserts : insertBusiness(data)
  \/ \E data \in WebInserts : insertWebsite(data)
  \/ \E id \in {"w1", "w2", "w3"}, data \in WebUpdates : updateWebsite(id, data)
  \/ \E id \in {"w1", "w2", "w3"}, url \in Urls : markWebsiteDeployed(id, url)
  \/ \E data \in OutreachInserts : logOutreach(data)

Spec == InitStore /\ [][Next]_vars

\* ------------------------------------------------------- discovery spec
\* Detail records the places adapter can answer with.
PlaceJoe == [place_id |-> "P1", name |-> "Joe", business_status |-> "OPERATIONAL"]
PlaceJOE == [place_id |-> "P2", name |-> "JOE", city |-> "OXFORD", state |-> "ms",
             business_status |-> "OPERATIONAL"]
PlaceAl == [place_id |-> "P3", name |-> "Al", website |-> NULL,
            business_status |-> "OPERATIONAL"]
PlaceBo == [place_id |-> "P4", name |-> "Bo", website |-> "https://bo.example",
            business_status |-> "OPERATIONAL"]
PlaceDi == [place_id |-> "P5", name |-> "Di", website |-> "  ",
            business_status |-> "OPERATIONAL"]
PlaceEd == [place_id |-> "P6", name |-> "Ed", website |-> "",
            business_status |-> "OPERATIONAL"]
PlaceCy == [place_id |-> "P7", name |-> "Cy", business_status |-> "CLOSED_TEMPORARILY"]
PlaceCafe == [place_id |-> "P8", name |-> "Café", business_status |-> "OPERATIONAL"]
\* a search result whose details lookup came back null
NoDetails == [place_id |-> NULL]

EntryLists ==
  { <<>>, <<PlaceJoe>>, <<PlaceJoe, PlaceJOE>>, <<PlaceJoe, PlaceAl>>, <<PlaceJOE>>,
    <<PlaceAl, PlaceJoe>>,
    <<PlaceBo, NoDetails, PlaceAl>>, <<PlaceDi, PlaceCy, PlaceEd>>, <<PlaceCafe>> }

PairResponses ==
  {[fails |-> TRUE, entries |-> <<>>]} \cup [fails : {FALSE}, entries : EntryLists]

DiscResponses == [1..NumPairs -> PairResponses]

\* Stores discovery can meet: empty, or holding one row of another source.
ForeignRows ==
  { [name |-> "Joe LLC", city |-> "Oxford", state |-> "MS", source |-> "ms_sos",
     source_id |-> "T1", google_place_id |-> "P1", has_website |-> 0],
    [name |-> "joe", city |-> "oxford", state |-> "ms", source |-> "ms_sos",
     source_id |-> "T2", has_website |-> 0],
    [name |-> "CAFÉ", city |-> "Oxford", state |-> "MS", source |-> "ms_sos",
     source_id |-> "T3", has_website |-> 0] }

InitStores == {<<>>} \cup { <<BusinessRow(data, "u1")>> : data \in ForeignRows }

InitDiscovery == \E bs \in InitStores, resp \in DiscResponses : InitWith(bs, resp)

NextDiscovery ==
  \/ StartDiscovery
  \/ DiscoverSearch
  \/ DiscoverSave
  \/ DiscoverReturn

SpecDiscovery == InitDiscovery /\ [][NextDiscovery]_vars

\* -------------------------------------------------------- pipeline spec
PipeEntryLists == { <<>>, <<PlaceJoe, PlaceAl>>, <<PlaceJOE>> }

PipeResponses ==
  [1..NumPairs -> {[fails |-> TRUE, entries |-> <<>>]}
                  \cup [fails : {FALSE}, entries : PipeEntryLists]]

InitPipeline == \E resp \in PipeResponses : InitWith(<<>>, resp)

NextPipeline ==
  \/ StartDiscovery
  \/ DiscoverSearch
  \/ DiscoverSave
  \/ DiscoverReturn
  \/ StartGeneration
  \/ GenerateStep
  \/ GenerateReturn
  \/ StartDeployment
  \/ DeployStep
  \/ DeployDone
  \/ DeployReturn

SpecPipeline == InitPipeline /\ [][NextPipeline]_vars

\* ------------------------------------------------------ concurrent spec
\* Generation and deployment runs on a store that another caller deletes
\* businesses from while they run.
DiscoveredRows ==
  << BusinessRow(DiscoveredBusiness(PlaceJoe, "barber_shop", Areas[1]), "u1"),
     BusinessRow(DiscoveredBusiness(PlaceAl, "barber_shop", Areas[1]), "u2") >>

InitConcurrent == InitWith(DiscoveredRows, <<>>)

NextConcurrent ==
  \/ StartGeneration
  \/ GenerateStep
  \/ GenerateReturn
  \/ StartDeployment
  \/ DeployStep
  \/ DeployDone
  \/ DeployReturn
  \/ \E id \in {"u1", "u2"} : deleteBusiness(id)

SpecConcurrent == InitConcurrent /\ [][NextConcurrent]_vars

\* ------------------------------------------- mock deployment (SpecMockDeploy)
\* Websites are generated for discovered businesses and deployed by id, any
\* number of times, while time passes.
MockWebInserts == [business_id : {"u1", "u2"}, template_name : {"suspended-dark"}]

MockBusinessRows ==
  << BusinessRow(DiscoveredBusiness(PlaceJoe, "barber_shop", Areas[1]), "u1"),
     BusinessRow([name |-> "Joe LLC", source |-> "ms_sos", source_id |-> "T1"], "u2") >>

InitMockDeploy == InitWith(MockBusinessRows, <<>>)

NextMockDeploy ==
  \/ Tick
  \/ \E data \in MockWebInserts : insertWebsite(data)
  \/ \E id \in {"w1", "w2", "w3"} : deployWebsiteById(id)
  \/ \E id \in {"u2"} : deleteBusiness(id)

SpecMockDeploy == InitMockDeploy /\ [][NextMockDeploy]_vars

\* --------------------------------------------- mock discovery (SpecMock)
\* Discovery runs against the mock places client, from an empty store.
NextMock ==
  \/ StartMockDiscovery
  \/ MockDiscoverSearch
  \/ MockDiscoverSave
  \/ MockDiscoverReturn

SpecMock == InitStore /\ [][NextMock]_vars

\* ------------------------------------- discovery breakdowns (SpecAreas)
\* Mock discovery over two areas, distinct or the same city and state twice.
AreaConfigs ==
  [ areas               : { << [city |-> "Oxford", state |-> "MS"],
                               [city |-> "New Albany", state |-> "MS"] >>,
                            << [city |-> "Oxford", state |-> "MS"],
                               [city |-> "Oxford", state |-> "MS"] >> },
    categories          : { <<"barber_shop">>, <<"barber_shop", "beauty_salon">> },
    maxResultsPerSearch : {5},
    onlyOperational     : {TRUE},
    minRating           : {0, 40} ]

NextAreas ==
  \/ StartMockDiscoveryWith(AreaConfigs)
  \/ MockDiscoverSearch
  \/ MockDiscoverSave
  \/ MockDiscoverReturn

SpecAreas == InitStore /\ [][NextAreas]_vars

\* ------------------------------------------ subdomain names (SpecSanitize)
\* Business names, character by character: every name of up to three
\* characters, and long names whose separator falls around the limit.
NameChars == {"a", "B", "1", " ", "-", "É"}

Repeat(c, n) == [k \in 1..n |-> c]

ShortNames == UNION { [1..n -> NameChars] : n \in 0..3 }

LongNames ==
  { Repeat("a", n) \o sep \o <<"b">> :
      n \in (SubdomainLimit - 3)..(SubdomainLimit + 1), sep \in {<<" ">>, <<" ", "-">>} }

\* sanitizeSubdomain and generateSubdomain are applied to a name.
Sanitize ==
  /\ \E name \in ShortNames \cup LongNames, variationNumber \in {1, 2} :
       result' = [ op |-> "sanitizeSubdomain", error |-> NULL,
                   value |-> [ name |-> name, variationNumber |-> variationNumber,
                               sanitized |-> SanitizeChars(name),
                               projectName |-> ProjectNameChars(name, variationNumber) ] ]
  /\ UNCHANGED <<storeVars, completed, pipeVars>>

NextSanitize == Sanitize

SpecSanitize == InitStore /\ [][NextSanitize]_vars

\* ------------------------------------- repeated deployment (SpecRepeat)
\* Websites are generated for two businesses and deployPending runs again
\* and again; some websites fail at the hosting service every time.
InitRepeat ==
  \E failing \in SUBSET {"w1", "w2"} : InitWith(DiscoveredRows, [failing |-> failing])

NextRepeat ==
  \/ \E data \in MockWebInserts : insertWebsite(data)
  \/ RepeatDeployPending
  \/ DeployStep
  \/ DeployDoneScripted
  \/ DeployReturn

SpecRepeat == InitRepeat /\ [][NextRepeat]_vars

\* deployPending is called again whenever it has returned, and every call
\* runs to its end: the hosting client's requests settle or time out.
SpecRepeatLive ==
  /\ SpecRepeat
  /\ WF_vars(RepeatDeployPending)
  /\ WF_vars(DeployStep)
  /\ WF_vars(DeployDoneScripted)
  /\ WF_vars(DeployReturn)

\* ------------------------------------ referential integrity (SpecIntegrity)
\* The store's operations on two discovered businesses, also for a business
\* that does not exist, while deployPending runs again and again.
IntegrityWebInserts ==
  [business_id : {"u2", "x1"}, template_name : {"suspended-dark"}]

NextIntegrity ==
  \/ \E data \in IntegrityWebInserts : insertWebsite(data)
  \/ \E data \in [business_id : {"u1", "x1"}, method : {"email"}] : logOutreach(data)
  \/ \E id \in {"u1", "u2"} : deleteBusiness(id)
  \/ deleteWebsite("w1")
  \/ updateBusiness("u1", [status |-> "enriched"])
  \/ RepeatDeployPending
  \/ DeployStep
  \/ DeployDone
  \/ DeployReturn

SpecIntegrity == InitConcurrent /\ [][NextIntegrity]_vars

\* ------------------------------------------------ hosting (SpecHosting)
\* createProject is called for some businesses and variations, one call at a
\* time, against the mock or against the service.
ProjectInputs == {"Joe", "Joe LLC"} \X {1, 2}

InitHosting == \E mock \in BOOLEAN : InitWithHosting(<<>>, <<>>, IdleHosting(mock))

NextHosting ==
  \/ \E in \in ProjectInputs : createProject(in[1], in[2])
  \/ PostAnswered
  \/ GetAnswered
  \/ ProjectRemoved

SpecHosting == InitHosting /\ [][NextHosting]_vars

\* ------------------------------------------------- upload (SpecUpload)
\* The hosting client deploys, in mock mode or against the service, and
\* retry is called with other options.
RetryOptions == {1, 2, 3} \X {1000, 2000} \X {1, 2, 3}

InitUpload == \E mock \in BOOLEAN : InitWithHosting(<<>>, <<>>, IdleHosting(mock))

NextUpload ==
  \/ clientDeployWebsite
  \/ \E o \in RetryOptions : retry(o[1], o[2], o[3])
  \/ FnAnswered
  \/ SleepDone
  \/ StatusAnswered
  \/ PollSleepDone

SpecUpload == InitUpload /\ [][NextUpload]_vars

\* Requests settle (the client's 60 s timeout) and timers fire.
SpecUploadLive ==
  /\ SpecUpload
  /\ WF_vars(FnAnswered)
  /\ WF_vars(SleepDone)
  /\ WF_vars(StatusAnswered)
  /\ WF_vars(PollSleepDone)

\* ------------------------------------------------ rate limiter (SpecLimiter)
\* One limiter, made for 1, 2 or 4 requests per second, and its callers.
NextLimiter ==
  \/ \E r \in {1, 2, 4} : NewRateLimiter(r)
  \/ \E c \in Callers : acquire(c)
  \/ \E c \in Callers : AcquireWakes(c)
  \/ TimePasses

SpecLimiter == InitStore /\ [][NextLimiter]_vars

\* --------------------------------------------- providers (SpecProviders)
\* Generation runs on two discovered businesses, with either provider, with
\* and without its key.
NextProviders ==
  \/ StartProviderGeneration
  \/ ProviderGenerateStep
  \/ GenerateReturn

SpecProviders == InitConcurrent /\ [][NextProviders]_vars

\* ----------------------------------------- adapters' requests (SpecAdapters)
\* The three adapters in live mode; the places client constructs its
\* RateLimiter(5) (or a slower one, so that its callers meet an empty bucket
\* within MaxAcquires), the other two clients construct none.
NextAdapters ==
  \/ \E r \in {2, 5} : NewRateLimiter(r)
  \/ \E c \in Callers : PlacesAcquire(c)
  \/ \E c \in Callers : AcquireWakes(c)
  \/ \E c \in Callers : PlacesGet(c)
  \/ ClaudeMessagesCreate("a")
  \/ VercelPost("a")
  \/ TimePasses

SpecAdapters == InitStore /\ [][NextAdapters]_vars

\* ------------------------------------------- business updates (SpecUpdate)
\* Two businesses whose rows carry updated_at are updated with partial
\* objects, some of whose keys are undefined, while time passes and websites
\* are inserted.
StampedRows ==
  << MockBusinessRows[1] @@ [updated_at |-> Times[1]],
     MockBusinessRows[2] @@ [updated_at |-> Times[1]] >>

UpdateInputs ==
  UNION { [name : {"Joe's"}, city : {UNDEFINED, "Tupelo"}],
          [source : {"google_places"}, source_id : {"P1", UNDEFINED}],
          [status : {"enriched", UNDEFINED}] }

UpdateIds == {"u2", "x1"}

InitUpdate == InitWith(StampedRows, <<>>)

NextUpdate ==
  \/ Tick
  \/ \E id \in UpdateIds, data \in UpdateInputs : updateBusiness(id, data)
  \/ insertWebsite([business_id |-> "u1", template_name |-> "suspended-dark"])

SpecUpdate == InitUpdate /\ [][NextUpdate]_vars

\* ------------------------------------------- discovery filter (SpecFilter)
\* The detailed candidates the filter meets: with or without a website, a
\* rating and an operating status; ratings are in tenths.
FilterPlaces ==
  UNION { [website : {NULL, "", " ", "https://joe.example"},
           business_status : {"OPERATIONAL", "CLOSED_TEMPORARILY"},
           rating : {30, 35, 45}],
          [website : {NULL, "", " ", "https://joe.example"},
           business_status : {"OPERATIONAL", "CLOSED_TEMPORARILY"}] }

\* config.minRating: 0 stands for not configured.
MinRatings == {0, 35, 40}

\* detailedResults.filter(...) applied to one candidate under one
\* configuration.
FilterCandidate ==
  /\ \E place \in FilterPlaces, onlyOperational \in BOOLEAN, minRating \in MinRatings :
       result' = [ op |-> "filter", error |-> NULL,
                   value |-> [ place |-> place, onlyOperational |-> onlyOperational,
                               minRating |-> minRating,
                               kept |-> Keep(place, onlyOperational, minRating) ] ]
  /\ UNCHANGED <<storeVars, completed, pipeVars>>

NextFilter == FilterCandidate

SpecFilter == InitStore /\ [][NextFilter]_vars

\* ---------------------------------------------- interruption (SpecRerun)
\* Generation (two variations, the AI client always answers) and deployment
\* run on two discovered businesses, any run may be interrupted, and the
\* stages are run again.

\* The pipeline's order: deployment starts once generation, re-run after an
\* interruption, has left no business in its queue.
StartDeploymentAfterGeneration ==
  /\ getBusinessesNeedingWebsites(MaxLimit) = <<>>
  /\ StartDeployment

NextRerun ==
  \/ StartGenerationWith({MaxLimit}, {2})
  \/ GenerateStepWith({TRUE})
  \/ GenerateReturn
  \/ StartDeploymentAfterGeneration
  \/ DeployStep
  \/ DeployDone
  \/ DeployReturn
  \/ Crash
  \/ CrashInInsertWebsite

SpecRerun == InitConcurrent /\ [][NextRerun]_vars

\* ================================================================ claims
\* Two rows may not stand together under the two unique indexes.
SameSourceKey(q, r) ==
  r.source_id # NULL /\ q.source = r.source /\ q.source_id = r.source_id

SameGooglePlaceId(q, r) ==
  r.google_place_id # NULL /\ q.google_place_id = r.google_place_id

\* C2: after any sequence of insertWebsite, markWebsiteDeployed and
\* logOutreach calls on a business, its status is the most advanced of the
\* stages completed on it (website_generated < deployed < contacted).
C2_StatusIsMostAdvancedStage ==
  \A i \in 1..Len(businesses) :
    LET b == businesses[i]
    IN  b.id \in DOMAIN completed =>
          /\ b.status \in completed[b.id]
          /\ \A st \in completed[b.id] : StatusRank(st) <= StatusRank(b.status)

\* C3: every generated-website row has preview_url null exactly when
\* deployed_at is null.
C3_PreviewUrlIffDeployedAt ==
  \A i \in 1..Len(websites) :
    (websites[i].preview_url = NULL) <=> (websites[i].deployed_at = NULL)

\* C4: a markWebsiteDeployed(id, url) that finds the website sets its
\* preview_url to url and its deployed_at to a non-null value, sets the owning
\* business's status to 'deployed', and changes no other website row, no other
\* field of that row, no other business row and no outreach row.
C4_MarkWebsiteDeployedEffect ==
  [][ (result'.op = "markWebsiteDeployed" /\ result'.value # NULL) =>
        LET i == RowIndex(websites, result'.value)
            o == RowIndex(businesses, websites[i].business_id)
        IN  /\ i # 0 /\ o # 0
            /\ Len(websites') = Len(websites)
            /\ Len(businesses') = Len(businesses)
            /\ websites'[i].preview_url = result'.url
            /\ websites'[i].deployed_at # NULL
            /\ \A k \in DOMAIN websites[i] \ {"preview_url", "deployed_at"} :
                 websites'[i][k] = websites[i][k]
            /\ \A j \in 1..Len(websites) : j # i => websites'[j] = websites[j]
            /\ businesses'[o].status = "deployed"
            /\ \A k \in DOMAIN businesses[o] \ {"status"} :
                 businesses'[o][k] = businesses[o][k]
            /\ \A j \in 1..Len(businesses) : j # o => businesses'[j] = businesses[j]
            /\ outreach' = outreach ]_vars

\* C4 witness: a website was marked deployed beside another website that is
\* still pending and another business that is not deployed.
C4_Witness ==
  /\ result.op = "markWebsiteDeployed" /\ result.value # NULL
  /\ Len(websites) = 2 /\ Len(businesses) = 2
  /\ \E i, j \in 1..2 :
       /\ websites[i].id = result.value /\ websites[i].preview_url = result.url
       /\ websites[j].deployed_at = NULL
       /\ websites[j].business_id # websites[i].business_id
       /\ getBusinessById(websites[j].business_id).status = "website_generated"

\* C9: no two business rows share a non-null (source, source_id) or a
\* non-null google_place_id, and an insertBusiness that fails leaves the
\* store unchanged while one that succeeds adds exactly one row.
C9_NoDuplicateRows ==
  \A i, j \in 1..Len(businesses) :
    i # j => /\ ~SameSourceKey(businesses[i], businesses[j])
             /\ ~SameGooglePlaceId(businesses[i], businesses[j])

C9_UniqueIndexes ==
  /\ []C9_NoDuplicateRows
  /\ [][ result'.op = "insertBusiness" =>
           IF result'.error # NULL
             THEN businesses' = businesses
             ELSE /\ Len(businesses') = Len(businesses) + 1
                  /\ SubSeq(businesses', 1, Len(businesses)) = businesses ]_vars

\* C9 witness: an insertBusiness failed on a unique index (no row has the
\* explicit id, so it was not the primary key) beside two stored rows.
C9_Witness ==
  /\ result.op = "insertBusiness" /\ result.error # NULL
  /\ Len(businesses) = 2
  /\ \A i \in 1..Len(businesses) : businesses[i].id # "x1"
  /\ \E i \in 1..Len(businesses) : businesses[i].google_place_id # NULL

\* An item of a batch duplicates a row (or another item).
Duplicates(item, q) ==
  LET r == BusinessRow(item, Coalesce(item, "id", NULL))
  IN  \/ r.id # NULL /\ q.id = r.id
      \/ SameSourceKey(q, r)
      \/ SameGooglePlaceId(q, r)

\* The rows of the store that come from the items of the batch: added[m] is
\* item f[m], with the columns insertBusinesses binds.
FromItems(batch, added, f) ==
  /\ \A m \in 1..Len(added) :
       \E id \in {added[m].id} : added[m] = BusinessRow(batch[f[m]], id)
  /\ \A m, n \in 1..Len(added) : m < n => f[m] < f[n]

\* C10 as stated: insertBusinesses raises nothing, returns the number of rows
\* it added, and inserts exactly the items that duplicate neither an existing
\* row nor an earlier item of the batch.
C10_SkipsEveryDuplicateItem ==
  [][ result'.op = "insertBusinesses" =>
      \A batch \in BizBatches : insertBusinesses(batch) =>
        LET n     == Len(businesses)
            added == SubSeq(businesses', n + 1, Len(businesses'))
        IN  /\ result'.error = NULL
            /\ result'.value = Len(added)
            /\ SubSeq(businesses', 1, n) = businesses
            /\ \E f \in [1..Len(added) -> 1..Len(batch)] :
                 /\ FromItems(batch, added, f)
                 /\ \A k \in 1..Len(batch) :
                      (\E m \in 1..Len(added) : f[m] = k) <=>
                        ~ \/ \E i \in 1..n : Duplicates(batch[k], businesses[i])
                          \/ \E j \in 1..(k - 1) :
                               Duplicates(batch[k], BusinessRow(batch[j], NULL)) ]_vars

\* C10 amended: ... and inserts exactly the items that duplicate neither an
\* existing row nor an earlier item of the batch that was itself inserted.
C10_SkipsDuplicatesOfStoredRows ==
  [][ result'.op = "insertBusinesses" =>
      \A batch \in BizBatches : insertBusinesses(batch) =>
        LET n     == Len(businesses)
            added == SubSeq(businesses', n + 1, Len(businesses'))
        IN  /\ result'.error = NULL
            /\ result'.value = Len(added)
            /\ SubSeq(businesses', 1, n) = businesses
            /\ \E f \in [1..Len(added) -> 1..Len(batch)] :
                 /\ FromItems(batch, added, f)
                 /\ \A k \in 1..Len(batch) :
                      (\E m \in 1..Len(added) : f[m] = k) <=>
                        ~ \/ \E i \in 1..n : Duplicates(batch[k], businesses[i])
                          \/ \E m \in 1..Len(added) :
                               f[m] < k /\ Duplicates(batch[k], added[m]) ]_vars

\* C10 witness: a batch call that skipped an item and inserted another.
C10_Witness ==
  /\ result.op = "insertBusinesses"
  /\ result.value = 1
  /\ Len(businesses) = 2
  /\ businesses[1].google_place_id # NULL \/ businesses[2].google_place_id # NULL

\* ------------------------------------------------------ pipeline claims
\* C1: across pipeline stage runs (discovery, generation, deployment, repeated,
\* with any per-item failures) no business's status moves to an earlier
\* position of discovered < ... < sold, and no business row disappears.
C1_StatusNeverRegresses ==
  [][ /\ Len(businesses') >= Len(businesses)
      /\ \A i \in 1..Len(businesses) :
           /\ businesses'[i].id = businesses[i].id
           /\ StatusRank(businesses'[i].status) >= StatusRank(businesses[i].status) ]_vars

\* C1 witness: a generation run is under way after a deployment run deployed a
\* business, while an earlier deployment of another website failed.
C1_Witness ==
  /\ stage = "generation"
  /\ runs = MaxRuns
  /\ \E i \in 1..Len(businesses) : businesses[i].status = "deployed"
  /\ \E i \in 1..Len(businesses) : businesses[i].status = "discovered"

Candidate == disc.cands[disc.i]

\* The step counted the candidate as already-exists and the pair goes on.
SkippedAndCounted ==
  /\ businesses' = businesses
  /\ disc'.last = "exists"
  /\ disc.pair \notin disc'.failed
  /\ IF disc'.pair = disc.pair
       THEN /\ disc'.stats.alreadyExists = disc.stats.alreadyExists + 1
            /\ disc'.stats.saved = disc.stats.saved
            /\ disc'.i = disc.i + 1
       ELSE /\ disc.i = Len(disc.cands)
            /\ disc'.pairStats[disc.pair].alreadyExists = disc.stats.alreadyExists + 1
            /\ disc'.pairStats[disc.pair].saved = disc.stats.saved

\* C6: a surviving candidate whose place id is the google_place_id of a row
\* with another (source, source_id) is not inserted, is counted as
\* already-exists, and the pair's remaining candidates are still handled.
C6_PlaceIdMatchIsSkipped ==
  [][ ( /\ stage = "discovery"
        /\ disc.phase = "save"
        /\ \E i \in 1..Len(businesses) :
             /\ businesses[i].google_place_id = Candidate.place_id
             /\ ~ ( businesses[i].source = "google_places"
                    /\ businesses[i].source_id = Candidate.place_id ) )
      => SkippedAndCounted ]_vars

\* Case folding of the strings of the model, every letter included.
CaseFoldTable == ("CAFÉ" :> "café") @@ LowerTable

CaseFold(str) == IF str \in DOMAIN CaseFoldTable THEN CaseFoldTable[str] ELSE str

CaseInsensitiveEq(a, b) == a # NULL /\ b # NULL /\ CaseFold(a) = CaseFold(b)

\* The candidate's (name, city, state) is that of row r, case-insensitively.
SameBusiness(place, area, r) ==
  /\ CaseInsensitiveEq(place.name, r.name)
  /\ CaseInsensitiveEq(IF "city" \in DOMAIN place THEN place.city ELSE area.city, r.city)
  /\ CaseInsensitiveEq(IF "state" \in DOMAIN place THEN place.state ELSE area.state, r.state)

\* C7: discovery never inserts a row whose (name, city, state) equals
\* case-insensitively that of a row already stored, whatever that row's
\* source; a candidate with such a triple is counted as already-exists.
C7_NoNameDuplicateInserted ==
  [][ /\ \A j \in (Len(businesses) + 1)..Len(businesses') :
           \A i \in 1..Len(businesses) :
             ~ ( /\ CaseInsensitiveEq(businesses'[j].name, businesses[i].name)
                 /\ CaseInsensitiveEq(businesses'[j].city, businesses[i].city)
                 /\ CaseInsensitiveEq(businesses'[j].state, businesses[i].state) )
      /\ ( /\ stage = "discovery"
           /\ disc.phase = "save"
           /\ \E i \in 1..Len(businesses) :
                SameBusiness(Candidate, PairArea(disc.pair), businesses[i]) )
         => SkippedAndCounted ]_vars

\* The rows a step added.
Inserted == SubSeq(businesses', Len(businesses) + 1, Len(businesses'))

InsertedAsDiscovered ==
  \A j \in 1..Len(Inserted) :
    /\ Inserted[j].has_website = 0
    /\ Inserted[j].website_url = NULL
    /\ Inserted[j].status = "discovered"
    /\ Inserted[j].google_place_id = Candidate.place_id

CallsFor(businessId) ==
  SelectSeq2(gen.calls, [k \in 1..Len(gen.calls) |-> gen.calls[k].businessId = businessId])

\* The website rows of the business with this id.
WebsitesOf(businessId) ==
  SelectSeq2(websites, [k \in 1..Len(websites) |-> websites[k].business_id = businessId])

\* C11: in a generation run with templatesPerBusiness = 2, for a business
\* that had no website, once the first AI call succeeded the business has one
\* row (variation 1) and status website_generated, and once both succeeded it
\* has exactly two rows (variations 1 and 2) and still status website_generated.
C11_TwoTemplatesTwoRows ==
  (stage = "generation" /\ Len(gen.templates) = 2) =>
    \A b \in 1..Len(gen.queue) :
      LET id == gen.queue[b].id
          c  == CallsFor(id)
          w  == WebsitesOf(id)
      IN  (Len(c) >= 1 /\ c[1].before = 0 /\ c[1].ok
             /\ (Len(c) = 2 => c[2].ok)) =>
            /\ Len(w) = Len(c)
            /\ \A k \in 1..Len(w) : w[k].variation_number = k
            /\ businesses[RowIndex(businesses, id)].status = "website_generated"

\* C11 witness: both calls succeeded for one business and the first call has
\* succeeded for the next one.
C11_Witness ==
  /\ stage = "generation"
  /\ Len(gen.templates) = 2
  /\ gen.b = 2
  /\ gen.t = 2
  /\ \A k \in 1..Len(gen.calls) : gen.calls[k].ok
  /\ gen.calls[1].before = 0
  /\ Len(WebsitesOf(gen.queue[1].id)) = 2
  /\ Len(WebsitesOf(gen.queue[2].id)) = 1

\* The business with this id would be returned by getBusinessesNeedingWebsites
\* when the limit is large enough.
NeedsWebsite(businessId) ==
  LET q == getBusinessesNeedingWebsites(Len(businesses))
  IN  \E k \in 1..Len(q) : q[k].id = businessId

\* C12: a business whose every variation failed in this generation run is
\* reported with success = false, has no website row, keeps the status it had
\* and is still returned by getBusinessesNeedingWebsites; a business with a
\* stored variation is reported with success = true, has status
\* website_generated and is no longer returned.
C12_FailedBusinessStaysEligible ==
  stage = "generation" =>
    \A r \in 1..Len(gen.results) :
      LET id     == gen.results[r].businessId
          c      == CallsFor(id)
          failed == \A k \in 1..Len(c) : ~ c[k].stored
          row    == businesses[RowIndex(businesses, id)]
      IN  /\ gen.queue[r].id = id
          /\ Len(c) = Len(gen.templates)
          /\ gen.results[r].success = ~ failed
          /\ failed =>
               /\ Len(WebsitesOf(id)) = c[1].before
               /\ row.status = gen.queue[r].status
               /\ row.status \in {"discovered", "enriched"}
               /\ NeedsWebsite(id)
          /\ ~ failed =>
               /\ row.status = "website_generated"
               /\ ~ NeedsWebsite(id)

\* C12 witness: a later generation run picked up again a business that an
\* earlier run had reported failed, while another business succeeded.
C12_Witness ==
  /\ stage = "generation"
  /\ runs = 3
  /\ Len(gen.results) = 1
  /\ ~ gen.results[1].success
  /\ Len(websites) >= 1
  /\ \E i \in 1..Len(businesses) : businesses[i].status = "website_generated"
  /\ NeedsWebsite(gen.results[1].businessId)

\* C13: in a generation run the AI client is called exactly once for every
\* business of the list and each of the first N templates, in list order and
\* template order, whatever the outcome of the earlier calls.
C13_EveryVariationAttempted ==
  stage = "generation" =>
    LET n == Len(gen.templates)
    IN  /\ Len(gen.calls) = (gen.b - 1) * n + (gen.t - 1)
        /\ \A k \in 1..Len(gen.calls) :
             /\ gen.calls[k].businessId = gen.queue[((k - 1) \div n) + 1].id
             /\ gen.calls[k].template = TEMPLATE_ORDER[((k - 1) % n) + 1]
             /\ gen.calls[k].variation = ((k - 1) % n) + 1
        /\ gen.b > Len(gen.queue) => Len(gen.calls) = Len(gen.queue) * n

\* C13 witness: the run went through its whole list although the AI client
\* raised for one variation and the store refused another.
C13_Witness ==
  /\ stage = "generation"
  /\ gen.b > Len(gen.queue)
  /\ Len(gen.calls) = 4
  /\ ~ gen.calls[1].ok
  /\ gen.calls[2].ok /\ gen.calls[2].stored
  /\ gen.calls[3].ok /\ ~ gen.calls[3].stored
  /\ gen.calls[4].ok /\ ~ gen.calls[4].stored

\* ----------------------------------------------------- discovery claims
\* C14: when a pair fails (the adapter or the store write raises), run() goes
\* on with the next pair: during a run the pairs visited are 1, 2, ... in
\* configuration order up to the current one, and every run that returned
\* visited every pair and returned a summary.
C14_FailedPairDoesNotAbortRun ==
  /\ stage = "discovery" =>
       /\ disc.visited = [k \in 1..Len(disc.visited) |-> k]
       /\ Len(disc.visited) = IF disc.phase = "save" THEN disc.pair ELSE disc.pair - 1
  /\ \A k \in 1..Len(discLog) :
       /\ discLog[k].visited = [p \in 1..NumPairs |-> p]
       /\ discLog[k].failed \subseteq 1..NumPairs
       /\ discLog[k].summary.newlySaved >= 0

\* C14 witness: a run returned after its first pair failed on the store write
\* and its last pair was processed and saved a business.
C14_Witness ==
  /\ Len(discLog) >= 1
  /\ discLog[1].failed = {1}
  /\ responses[1].fails = FALSE
  /\ discLog[1].pairStats[NumPairs].saved >= 1

\* C15: the newlySaved of the summary a discovery run returned is the number
\* of business rows the run inserted, also when a pair failed after some of
\* its candidates were inserted.
C15_NewlySavedCountsInsertedRows ==
  \A k \in 1..Len(discLog) : discLog[k].summary.newlySaved = discLog[k].inserted

\* ---------------------------------------------------- deployment claims
\* The index in the websites table of the k-th row that is not deployed.
KthPending(k) ==
  CHOOSE j \in 1..Len(websites) :
    /\ websites[j].deployed_at = NULL
    /\ Cardinality({m \in 1..j : websites[m].deployed_at = NULL}) = k

\* deployPending's queue is the first `limit` undeployed rows, oldest first.
QueueIsOldestPending ==
  (stage = "idle" /\ stage' = "deployment") =>
    /\ Len(dep'.queue) =
         Min(dep'.limit,
             Cardinality({m \in 1..Len(websites) : websites[m].deployed_at = NULL}))
    /\ \A k \in 1..Len(dep'.queue) : dep'.queue[k] = websites[KthPending(k)]

\* deployPending's bookkeeping: the websites are handled in queue order, one
\* result each, and the counters add up.
BatchCounted ==
  stage = "deployment" =>
    /\ Len(dep.results) = dep.i - 1
    /\ \A k \in 1..Len(dep.results) : dep.results[k].websiteId = dep.queue[k].id
    /\ dep.total = Len(dep.queue)
    /\ dep.successful + dep.failed = Len(dep.results)
    /\ dep.successful = Cardinality({k \in 1..Len(dep.results) : dep.results[k].success})
    /\ dep.i <= Len(dep.queue) + 1

\* C16 as stated: deployPending handles the pending websites in the order of
\* getWebsitesPendingDeployment, every one of them whatever failed before, and
\* returns total = successful + failed = number of results, with successful
\* equal to the number of websites it marked deployed.
C16_SuccessfulCountsMarkedWebsites ==
  /\ [](BatchCounted /\ (stage = "deployment" => dep.successful = dep.marked))
  /\ [][QueueIsOldestPending]_vars

\* C16 amended: ... with successful equal to the number of websites the
\* hosting client deployed; each of them is marked deployed when its row is
\* still in the store, and is not when the row was deleted meanwhile.
C16_SuccessfulCountsAdapterSuccesses ==
  /\ [](BatchCounted /\ (stage = "deployment" => dep.marked <= dep.successful))
  /\ [][ /\ QueueIsOldestPending
         /\ (stage = "deployment" /\ dep.phase = "deploying"
               /\ dep'.successful = dep.successful + 1) =>
              LET id == dep.queue[dep.i].id
                  j  == RowIndex(websites, id)
              IN  IF j = 0
                    THEN dep'.marked = dep.marked /\ websites' = websites
                    ELSE /\ dep'.marked = dep.marked + 1
                         /\ websites'[j].preview_url = dep'.results[dep.i].url
                         /\ websites'[j].deployed_at # NULL ]_vars

\* C16 witness: a batch of two is done; the first deployment failed, the
\* second succeeded and was marked deployed.
C16_Witness ==
  /\ stage = "deployment"
  /\ dep.i > Len(dep.queue)
  /\ Len(dep.results) = 2
  /\ ~ dep.results[1].success /\ dep.results[1].error = "adapter"
  /\ dep.results[2].success
  /\ dep.marked = 1
  /\ \E j \in 1..Len(websites) :
       websites[j].id = dep.queue[2].id /\ websites[j].deployed_at # NULL

\* C17: when deployPending reaches a pending website whose business row is
\* not in the store, it counts the website as failed with the error 'Business
\* not found', does not call the hosting client, changes nothing in the
\* store, and goes on with the next website of the queue.
C17_MissingBusinessCountedFailed ==
  [][ ( /\ stage = "deployment"
        /\ dep.phase = "next"
        /\ dep.i <= Len(dep.queue)
        /\ RowIndex(businesses, dep.queue[dep.i].business_id) = 0
        /\ dep' # dep )
      => /\ dep'.failed = dep.failed + 1
         /\ dep'.successful = dep.successful
         /\ dep'.results = Append(dep.results,
                                  [ websiteId |-> dep.queue[dep.i].id, success |-> FALSE,
                                    url |-> "", error |-> "Business not found" ])
         /\ dep'.adapterCalls = dep.adapterCalls
         /\ dep'.i = dep.i + 1
         /\ dep'.phase = "next"
         /\ dep'.queue = dep.queue
         /\ stage' = "deployment"
         /\ UNCHANGED storeVars ]_vars

\* C17 witness: the first website of the queue lost its business, was counted
\* failed, and the second one was then deployed.
C17_Witness ==
  /\ stage = "deployment"
  /\ Len(dep.results) = 2
  /\ dep.results[1].error = "Business not found"
  /\ dep.results[2].success
  /\ dep.adapterCalls = <<dep.queue[2].id>>
  /\ dep.failed = 1

\* C18: in mock mode every deployWebsiteById call on a website whose business
\* exists succeeds, a repeated call included; after the call the row holds
\* that call's url and that call's time, no row was added or removed, the
\* other rows are as they were, and the business has status 'deployed'.
C18_RedeployOverwrites ==
  [][\A id \in {"w1", "w2", "w3"} :
       LET w == RowIndex(websites, id)
           b == IF w = 0 THEN 0 ELSE RowIndex(businesses, websites[w].business_id)
       IN  (deployWebsiteById(id) /\ w # 0 /\ b # 0) =>
             /\ result'.error = NULL
             /\ result'.value.success
             /\ result'.value.url = mockDeployWebsite(businesses[b].name)
             /\ Len(websites') = Len(websites)
             /\ Len(businesses') = Len(businesses)
             /\ websites'[w].id = id
             /\ websites'[w].preview_url = result'.value.url
             /\ websites'[w].deployed_at = Times[clock]
             /\ \A j \in 1..Len(websites) : j # w => websites'[j] = websites[j]
             /\ businesses'[b].status = "deployed"
             /\ \A j \in 1..Len(businesses) : j # b => businesses'[j] = businesses[j]
  ]_vars

\* A second call on a deployed website has replaced the first call's time.
C18_Witness ==
  /\ result.op = "deployWebsiteById"
  /\ result.error = NULL
  /\ result.value.before # NULL
  /\ LET row == websites[RowIndex(websites, result.value.websiteId)]
     IN  /\ row.deployed_at # result.value.before
         /\ row.preview_url = "https://joe-llc.mock-deploy.local"
  /\ Len(websites) = 2

\* ------------------------------------------------ mock discovery claims
\* One area, one category, maxResultsPerSearch = 5.
ScenarioA(config) ==
  /\ Len(config.areas) = 1
  /\ Len(config.categories) = 1
  /\ config.maxResultsPerSearch = 5

\* What the claim says of a run of the mock over the pair (area, category):
\* 5 candidates, a website on index i exactly when i mod 5 < 3, the rows of
\* the store are the candidates 3 and 4, withoutWebsite = newlySaved = 2.
ScenarioAOutcome(area, category, summary, rows) ==
  LET details == MockDetails(area, category, 5)
  IN  /\ summary.totalFound = 5
      /\ Len(details) = 5
      /\ \A k \in 1..Len(details) : HasWebsite(details[k]) <=> ((k - 1) % 5 < 3)
      /\ Len(rows) = 2
      /\ rows[1].source_id = MockPlaceId(area, category, 3)
      /\ rows[2].source_id = MockPlaceId(area, category, 4)
      /\ \A j \in 1..Len(rows) : rows[j].website_url = NULL
      /\ summary.withoutWebsite = 2
      /\ summary.newlySaved = 2

\* C19 as stated: every mock-mode run for one area and one category with
\* maxResultsPerSearch = 5 that began on an empty store returns with 5
\* candidates found, websites on the indices with i mod 5 < 3, exactly the
\* candidates 3 and 4 in the store, and withoutWebsite = newlySaved = 2.
C19_MockRunSavesIndices3And4 ==
  [][(stage = "discovery" /\ stage' = "idle" /\ disc.rowsBefore = 0
        /\ ScenarioA(disc.config))
       => ScenarioAOutcome(disc.config.areas[1], disc.config.categories[1],
                           disc.summary, businesses')]_vars

\* C19 amended: the same for the runs whose configuration has no minimum
\* rating above 3.5 (the mock rates candidate 3 at 3.5 and candidate 4 at 4.0).
C19_MockRunWithoutRatingFilter ==
  [][(stage = "discovery" /\ stage' = "idle" /\ disc.rowsBefore = 0
        /\ ScenarioA(disc.config) /\ disc.config.minRating <= 35)
       => ScenarioAOutcome(disc.config.areas[1], disc.config.categories[1],
                           disc.summary, businesses')]_vars

\* Such a run has returned, with a minimum rating of 3.5 configured.
C19_Witness ==
  /\ stage = "idle"
  /\ Len(discLog) = 1
  /\ discLog[1].rowsBefore = 0
  /\ ScenarioA(discLog[1].config)
  /\ discLog[1].config.minRating = 35
  /\ discLog[1].summary.newlySaved = 2
  /\ Len(businesses) = 2
  /\ businesses[2].source_id = "mock_newalbany_establishment_4"

\* ------------------------------------------------------- hosting claims
\* C20 as stated: every createProject call succeeds and returns a project
\* with the requested name.
C20_CreateProjectAlwaysSucceeds ==
  result.op = "createProject" =>
    /\ result.error = NULL
    /\ result.value.project.name = result.value.requested

\* C20 amended: a createProject call succeeds, with a project of the requested
\* name, exactly when it ran in mock mode, or the service created the project,
\* or the service answered 409 and then served the fetch; a 409 alone never
\* ends the call; the call raises when the create request fails otherwise or
\* when the fetch after a 409 fails.
C20_ConflictIsFetched ==
  /\ hosting.mock => hosting.phase = "idle"
  /\ result.op = "createProject" =>
       /\ (result.error = NULL) <=>
            (result.value.answers \in {<<>>, <<"200">>, <<"409", "200">>})
       /\ (result.value.answers = <<>>) <=> hosting.mock
       /\ result.error = NULL =>
            /\ result.value.project.name = result.value.requested
            /\ result.value.project.subdomain = result.value.requested
       /\ result.error # NULL =>
            result.value.answers \in {<<"500">>, <<"409", "404">>, <<"409", "500">>}

\* A call was answered 409 and returned the project it then fetched.
C20_Witness ==
  /\ result.op = "createProject"
  /\ result.error = NULL
  /\ result.value.answers = <<"409", "200">>
  /\ result.value.project.name = "joe-llc-v2"
  /\ "joe-llc-v2" \in hosting.projects

\* ------------------------------------------------------- upload claims
\* C21: a VercelClient.deployWebsite call always ends with a result and
\* raises nothing; after a successful upload the result is success exactly
\* when the last status polled was READY; a wait that ran out gives
\* success = false with status ERROR after polling for at least maxWaitMs.
C21_DeployWebsiteEnds ==
  /\ [](upload.caller = "deployWebsite" =>
          /\ ~upload.outcome.raised
          /\ upload.phase = "done" /\ upload.polls > 0 =>
               /\ upload.outcome.success <=> upload.status = "READY"
               /\ upload.outcome.timedOut =>
                    /\ ~upload.outcome.success
                    /\ upload.outcome.error = "ERROR"
                    /\ upload.status \notin Terminal
                    /\ upload.waited >= maxWaitMs
               /\ (~upload.outcome.timedOut /\ upload.status \notin Terminal) =>
                    upload.outcome.error \in Transient
          /\ upload.phase = "done" /\ upload.polls = 0 /\ ~hosting.mock =>
               ~upload.outcome.success)
  /\ (upload.caller = "deployWebsite" /\ upload.phase # "done")
       ~> (upload.caller = "deployWebsite" /\ upload.phase = "done")

\* The wait ran out after the upload's second attempt succeeded.
C21_Witness ==
  /\ upload.caller = "deployWebsite"
  /\ upload.phase = "done"
  /\ upload.outcome.timedOut
  /\ upload.answers = <<"500", "ok">>
  /\ upload.status = "BUILDING"
  /\ upload.polls > 1

RECURSIVE Pow(_, _)
Pow(b, e) == IF e = 0 THEN 1 ELSE b * Pow(b, e - 1)

\* C22: retry calls fn at most maxAttempts times (the upload: at most 3
\* times), stops at the first success, sleeps delayMs * backoffMultiplier^(k-1)
\* after the k-th failure for k < maxAttempts, does not sleep after the last
\* attempt, and then raises the last attempt's error.
C22_RetryBoundedWithBackoff ==
  upload.caller # "none" /\ ~(upload.caller = "deployWebsite" /\ hosting.mock) =>
    LET n == Len(upload.answers)
    IN  /\ n <= upload.maxAttempts
        /\ upload.caller = "deployWebsite" => upload.maxAttempts = 3
        /\ \A k \in 1..(n - 1) : upload.answers[k] # "ok"
        /\ \A k \in 1..Len(upload.waits) :
             /\ k < upload.maxAttempts
             /\ upload.waits[k] = upload.delayMs * Pow(upload.backoffMultiplier, k - 1)
        /\ Len(upload.waits) = IF upload.phase \in {"call"} THEN n
                               ELSE IF n = 0 THEN 0 ELSE n - 1
        /\ (upload.phase = "done" /\ upload.caller = "retry") =>
             /\ upload.outcome.success <=> upload.answers[n] = "ok"
             /\ upload.outcome.raised <=> ~upload.outcome.success
             /\ upload.outcome.raised =>
                  /\ n = upload.maxAttempts
                  /\ upload.outcome.error = upload.answers[n]
        /\ (upload.phase = "done" /\ upload.polls = 0 /\ upload.caller = "deployWebsite") =>
             /\ n = 3
             /\ upload.outcome.error = upload.answers[n]

\* retry gave up after three failures and two growing sleeps.
C22_Witness ==
  /\ upload.caller = "retry"
  /\ upload.phase = "done"
  /\ upload.outcome.raised
  /\ upload.outcome.error = "401"
  /\ upload.answers = <<"500", "500", "401">>
  /\ upload.waits = <<1000, 3000>>

\* C23: a permanent error (bad credential, malformed request) answering the
\* upload ends the upload: no further upload request is sent and the
\* deployment's result carries that error.
C23_PermanentErrorNotRetried ==
  upload.caller = "deployWebsite" =>
    \A k \in 1..Len(upload.answers) :
      upload.answers[k] \in Permanent =>
        /\ k = Len(upload.answers)
        /\ upload.phase = "done"
        /\ upload.outcome.error = upload.answers[k]

\* ------------------------------------------------- rate limiter claims
\* C24: (a) when the first C+1 acquires all come from one caller, the first
\* of them on the full bucket, the last one finishes at least 1/R seconds
\* after the first; (b) the acquires finished within any span of T seconds
\* number at most C + R*T.
C24_RateIsBounded ==
  limiter.made =>
    LET done == limiter.done
        cap  == limiter.maxTokens
        rate == limiter.refillRate
    IN  /\ (/\ Len(done) > cap
            /\ \A k \in 1..(cap + 1) : done[k].by = done[1].by)
             => (done[cap + 1].t - done[1].t) * rate >= 1000
        /\ \A i \in 1..Len(done) : \A j \in i..Len(done) :
             (j - i + 1) * 1000 <= cap * 1000 + rate * (done[j].t - done[i].t)

\* ----------------------------------------------------- provider claims
\* C25: with the configured provider's key absent, every generateWebsite
\* call of the run returned a document, so every business of the run was
\* generated, whichever the provider.
C25_MockModeGeneratesLocally ==
  ("provider" \in DOMAIN gen /\ isInMockMode(gen.apiKey)) =>
    /\ \A k \in 1..Len(gen.calls) : gen.calls[k].ok
    /\ \A k \in 1..Len(gen.results) : gen.results[k].success

\* ------------------------------------------------- interruption claims
\* Every stage has run to completion: nothing is running and neither queue
\* holds anything.
NothingLeftToDo ==
  /\ stage = "idle"
  /\ getBusinessesNeedingWebsites(MaxLimit) = <<>>
  /\ getWebsitesPendingDeployment(MaxLimit) = <<>>

\* C26: once the stages have been run to completion, interrupted runs or
\* not, the store is the one of an uninterrupted generation and deployment
\* of two variations: both businesses, each 'deployed', each with exactly one
\* website row per variation 1 and 2, every row deployed.
C26_RerunGivesUninterruptedStore ==
  NothingLeftToDo =>
    /\ Len(businesses) = Len(DiscoveredRows)
    /\ \A i \in 1..Len(businesses) :
         /\ businesses[i].status = "deployed"
         /\ \A v \in {1, 2} :
              Cardinality({k \in 1..Len(websites) :
                             /\ websites[k].business_id = businesses[i].id
                             /\ websites[k].variation_number = v}) = 1
         /\ CountWebsites(websites, businesses[i].id) = 2
    /\ \A k \in 1..Len(websites) :
         websites[k].preview_url # NULL /\ websites[k].deployed_at # NULL

\* ---------------------------------------------- generation summary claims
\* generateForBusinesses has returned its summary.
GenerationReturned ==
  stage = "idle" /\ gen.queue # <<>> /\ gen.b > Len(gen.queue)

\* The calls of the run that stored a page for the business.
StoredCalls(businessId) ==
  {k \in 1..Len(gen.calls) : gen.calls[k].stored /\ gen.calls[k].businessId = businessId}

\* C27: in the summary of every generateForBusinesses run, successful plus
\* failed generations equal totalBusinesses and the number of results, a
\* result is a success exactly when at least one of the business's variations
\* was stored, and totalWebsitesCreated is the number of website rows the run
\* inserted.
C27_SummaryCountsAddUp ==
  /\ stage = "generation" =>
       /\ gen.summary.successfulGenerations + gen.summary.failedGenerations
            = Len(gen.results)
       /\ gen.summary.totalBusinesses = Len(gen.queue)
  /\ GenerationReturned =>
       /\ gen.summary.successfulGenerations + gen.summary.failedGenerations
            = gen.summary.totalBusinesses
       /\ gen.summary.totalBusinesses = Len(gen.results)
       /\ \A i \in 1..Len(gen.results) :
            /\ gen.results[i].businessId = gen.queue[i].id
            /\ gen.results[i].success <=> StoredCalls(gen.queue[i].id) # {}
            /\ gen.results[i].websitesGenerated
                 = Cardinality(StoredCalls(gen.queue[i].id))
       /\ gen.summary.totalWebsitesCreated
            = Cardinality({k \in 1..Len(gen.calls) : gen.calls[k].stored})

\* A run over two businesses returned: one got a page stored, the other none.
C27_Witness ==
  /\ GenerationReturned
  /\ gen.summary.successfulGenerations = 1
  /\ gen.summary.failedGenerations = 1
  /\ gen.summary.totalWebsitesCreated >= 1

\* ------------------------------------------------ business update claims
\* The row of business id takes the given values of data and the current
\* time as updated_at; nothing else in the store changes.
OnlyGivenFieldsChange(id, data) ==
  LET i == RowIndex(businesses, id)
  IN  /\ Len(businesses') = Len(businesses)
      /\ \A j \in 1..Len(businesses) : j # i => businesses'[j] = businesses[j]
      /\ DOMAIN businesses'[i] = DOMAIN businesses[i]
      /\ \A k \in DOMAIN businesses[i] :
           businesses'[i][k] = IF k = "updated_at" THEN Now
                               ELSE IF k \in DOMAIN data /\ data[k] # UNDEFINED
                                 THEN data[k]
                                 ELSE businesses[i][k]
      /\ result'.value = id
      /\ UNCHANGED <<websites, outreach, execs>>

\* The values given would repeat another row's (source, source_id).
RepeatsSourceId(id, data) ==
  LET i == RowIndex(businesses, id)
      source == IF "source" \in DOMAIN data /\ data.source # UNDEFINED
                  THEN data.source ELSE businesses[i].source
      source_id == IF "source_id" \in DOMAIN data /\ data.source_id # UNDEFINED
                     THEN data.source_id ELSE businesses[i].source_id
  IN  /\ source_id # NULL
      /\ \E j \in 1..Len(businesses) :
           j # i /\ businesses[j].source = source /\ businesses[j].source_id = source_id

\* C28 as stated: updateBusiness(id, partial) on an existing business changes
\* exactly the given (not undefined) fields plus updated_at and nothing else
\* in the store; for an unknown id it returns null and changes nothing.
C28_UpdateChangesExactlyGivenFields ==
  [][ \A id \in UpdateIds, data \in UpdateInputs :
        updateBusiness(id, data) =>
          IF RowIndex(businesses, id) = 0
            THEN result'.value = NULL /\ UNCHANGED storeVars
            ELSE OnlyGivenFieldsChange(id, data) ]_vars

\* C28, amended: the same, unless the given source and source_id repeat
\* another row's: then the update raises and the store is unchanged.
C28_UpdateChangesGivenFieldsUnlessDuplicate ==
  [][ \A id \in UpdateIds, data \in UpdateInputs :
        updateBusiness(id, data) =>
          IF RowIndex(businesses, id) = 0
            THEN result'.value = NULL /\ result'.error = NULL /\ UNCHANGED storeVars
          ELSE IF RepeatsSourceId(id, data)
            THEN result'.error = "SQLITE_CONSTRAINT" /\ UNCHANGED storeVars
            ELSE result'.error = NULL /\ OnlyGivenFieldsChange(id, data) ]_vars

\* u2 was updated at t2 with a partial object whose city was given; u1 still
\* has its first timestamp.
C28_Witness ==
  /\ result.op = "updateBusiness"
  /\ result.value = "u2"
  /\ Len(businesses) = 2
  /\ businesses[2].city = "Tupelo"
  /\ businesses[2].name = "Joe's"
  /\ businesses[2].updated_at = Times[2]
  /\ businesses[1].updated_at = Times[1]
  /\ websites # <<>>

\* ------------------------------------------------ failed deployment claims
\* C29: when deployWebsite fails for a pending website, the store is left
\* unchanged: the website's preview_url and deployed_at stay null, its
\* business keeps its status, and the next getWebsitesPendingDeployment with
\* the same limit returns the website again.
C29_FailedDeploymentLeavesStore ==
  [][ ( /\ stage = "deployment"
        /\ dep.phase = "deploying"
        /\ dep'.failed = dep.failed + 1 ) =>
        LET website == dep.queue[dep.i]
            w == RowIndex(websites', website.id)
            b == RowIndex(businesses, website.business_id)
            pending == Take(SelectSeq2(websites',
                              [k \in 1..Len(websites') |->
                                 websites'[k].deployed_at = NULL]), dep.limit)
        IN  /\ UNCHANGED storeVars
            /\ w # 0
            /\ websites'[w].preview_url = NULL
            /\ websites'[w].deployed_at = NULL
            /\ b # 0
            /\ businesses'[b].status = businesses[b].status
            /\ \E k \in 1..Len(pending) : pending[k].id = website.id
            /\ dep'.results[Len(dep'.results)].success = FALSE ]_vars

\* A run deployed one website and failed on another, which is still pending.
C29_Witness ==
  /\ stage = "deployment"
  /\ dep.successful >= 1
  /\ dep.failed >= 1
  /\ \E i \in 1..Len(dep.results) :
       /\ ~dep.results[i].success
       /\ \E k \in 1..Len(websites) :
            /\ websites[k].id = dep.results[i].websiteId
            /\ websites[k].deployed_at = NULL
            /\ websites[k].preview_url = NULL

\* ------------------------------------------------ discovery filter claims
\* C30: the filter keeps a detailed candidate exactly when it has no
\* non-empty website (blank after trimming counts as empty), and, if
\* onlyOperational is set, its business_status is OPERATIONAL, and, if
\* minRating is configured, it has a rating at or above minRating.
C30_FilterKeepsExactly ==
  result.op = "filter" =>
    LET place == result.value.place
    IN  result.value.kept <=>
          /\ place.website \in {NULL, "", " "}
          /\ result.value.onlyOperational => place.business_status = "OPERATIONAL"
          /\ result.value.minRating # 0 =>
               /\ "rating" \in DOMAIN place
               /\ place.rating >= result.value.minRating

\* ------------------------------------------------- adapter request claims
\* C31: in each adapter in live mode, every outgoing request is preceded by
\* its own acquisition of a token from that adapter's bucket: an adapter has
\* never sent more requests than its bucket has handed out tokens (the AI and
\* hosting clients have no bucket, so none were handed out).
C31_EveryRequestAcquiresToken ==
  \A adapter \in {"places", "claude", "vercel"} :
    Cardinality({k \in 1..Len(sent) : sent[k].adapter = adapter})
      <= IF adapter = "places" /\ limiter.made THEN Len(limiter.done) ELSE 0

\* ------------------------------------------- discovery breakdown claims
\* The sum of a counter over the entries of a breakdown.
RECURSIVE SumOver(_, _, _)
SumOver(breakdown, keys, counter) ==
  IF keys = {} THEN 0
  ELSE LET k == CHOOSE x \in keys : TRUE
       IN  breakdown[k][counter] + SumOver(breakdown, keys \ {k}, counter)

\* C32: at the end of every run, for found, withoutWebsite and saved, the
\* sum over the byArea entries and the sum over the byCategory entries both
\* equal the overall total, also when two areas share city and state.
C32_BreakdownsSumToTotals ==
  \A r \in 1..Len(discLog) :
    LET e          == discLog[r]
        n          == Len(e.pairStats)
        byArea     == ByArea(e.config, e.pairStats, n)
        byCategory == ByCategory(e.config, e.pairStats, n)
    IN  /\ n = ConfigPairs(e.config)
        /\ \A b \in {byArea, byCategory} :
             /\ SumOver(b, DOMAIN b, "found") = e.summary.totalFound
             /\ SumOver(b, DOMAIN b, "withoutWebsite") = e.summary.withoutWebsite
             /\ SumOver(b, DOMAIN b, "saved") = e.summary.newlySaved

\* ------------------------------------------------ subdomain name claims
\* C33: for every business name, sanitizeSubdomain returns at most 50
\* characters, only a-z, 0-9 and single hyphens, neither starting nor ending
\* with a hyphen, and the project name is that string followed by '-v' and
\* the variation number.
C33_SanitizedNameIsWellFormed ==
  result.op = "sanitizeSubdomain" =>
    LET out == result.value.sanitized
    IN  /\ Len(out) <= 50
        /\ \A k \in 1..Len(out) : out[k] \in {"a", "b", "0", "1", "-"}
        /\ \A k \in 1..(Len(out) - 1) : ~(out[k] = "-" /\ out[k + 1] = "-")
        /\ out # <<>> => out[1] # "-" /\ out[Len(out)] # "-"
        /\ result.value.projectName = out \o <<"-", "v", result.value.variationNumber>>

\* -------------------------------------------- repeated deployment claims
\* C34: under repeated deployPending runs with a fixed limit, every pending
\* website whose own deployment would succeed is eventually deployed, even
\* when older pending websites fail on every attempt.
C34_DeployableWebsiteIsDeployed ==
  \A id \in {"w1", "w2"} :
    ( /\ id \notin responses.failing
      /\ \E k \in 1..Len(websites) :
           websites[k].id = id /\ websites[k].deployed_at = NULL )
    ~> ( \E k \in 1..Len(websites) :
           websites[k].id = id /\ websites[k].deployed_at # NULL )

\* -------------------------------------------- referential integrity claims
\* Every website row and every outreach row references an existing business.
RowsReferenceBusinesses ==
  /\ \A k \in 1..Len(websites) : RowIndex(businesses, websites[k].business_id) # 0
  /\ \A k \in 1..Len(outreach) : RowIndex(businesses, outreach[k].business_id) # 0

\* deployPending took its 'Business not found' branch in the current run.
MetWebsiteWithoutBusiness ==
  \E i \in 1..Len(dep.results) : dep.results[i].error = "Business not found"

\* C35 as stated: in every state reachable through the store's operations
\* every website and outreach row references an existing business, and so
\* deployPending never meets a pending website without a business.
C35_NoWebsiteWithoutBusiness ==
  RowsReferenceBusinesses /\ ~MetWebsiteWithoutBusiness

\* C35, amended: the rows always reference existing businesses, an insert
\* for a missing business fails without adding a row, a deleted business
\* takes its websites and outreach rows with it, and every website
\* getWebsitesPendingDeployment hands to deployPending has a business at
\* that moment (it can lose it before deployPending reaches it).
C35_RowsAlwaysReferenceBusinesses ==
  /\ []RowsReferenceBusinesses
  /\ [][ /\ ( result'.op \in {"insertWebsite", "logOutreach"} /\ result' # result
              /\ result'.error # NULL ) => UNCHANGED storeVars
         /\ ( stage = "idle" /\ stage' = "deployment" ) =>
              \A k \in 1..Len(dep'.queue) :
                RowIndex(businesses, dep'.queue[k].business_id) # 0 ]_vars

\* A business was deleted while deployPending held one of its websites in
\* its queue; the run met the website without a business, and the store still
\* holds the other business and its outreach row.
C35_Witness ==
  /\ MetWebsiteWithoutBusiness
  /\ Len(businesses) = 1
  /\ websites = <<>>
  /\ outreach # <<>>
  /\ RowsReferenceBusinesses

\* C36: when generation is driven from the getBusinessesNeedingWebsites
\* queue in sequential runs with any per-variation failures, no business
\* has two generated-website rows with the same variation_number, and each
\* row's variation_number is the position of its template in the template
\* list and lies in 1..templatesPerBusiness.
C36_VariationNumbersAreUniquePositions ==
  /\ \A i, j \in 1..Len(websites) :
       (i # j /\ websites[i].business_id = websites[j].business_id)
         => websites[i].variation_number # websites[j].variation_number
  /\ \A i \in 1..Len(websites) :
       /\ websites[i].variation_number \in 1..Len(TEMPLATE_ORDER)
       /\ \E tpb \in TemplatesPerBusinessChoices :
            websites[i].variation_number \in 1..tpb
       /\ websites[i].template_name = TEMPLATE_ORDER[websites[i].variation_number]
  /\ stage = "generation" =>
       \A k \in 1..Len(gen.calls) :
         gen.calls[k].stored =>
           /\ gen.calls[k].variation \in 1..Len(gen.templates)
           /\ gen.templates[gen.calls[k].variation] = gen.calls[k].template

\* Two businesses hold rows: the first lost its first variation to a
\* failure and kept only the second.
C36_Witness ==
  /\ stage = "idle"
  /\ Len(websites) = 2
  /\ websites[1].business_id # websites[2].business_id
  /\ websites[1].variation_number = 2
  /\ websites[2].variation_number = 1

\* ------------------------------------------ project names (SpecProjects)
MaxDeploys == 3

\* The deployment a project serves: the position of its last production
\* deployment in h.deployments, 0 when it has none.
Serves(h, projectName) ==
  LET ks == {k \in 1..Len(h.deployments) : h.deployments[k].project = projectName}
  IN  IF ks = {} THEN 0 ELSE CHOOSE k \in ks : \A m \in ks : m <= k

\* DeploymentService.deployWebsite for a stored website and its business,
\* the client's calls answered in turn: createProject creates the project or
\* (409) fetches the one of that name, the client's deployWebsite posts a
\* production deployment named after the project, and a success is recorded
\* with markWebsiteDeployed.  ok = FALSE is a deployment the service refuses.
DeployToProject(websiteId) ==
  /\ hosting.phase = "idle"
  /\ Len(hosting.deployments) < MaxDeploys
  /\ \E w \in 1..Len(websites), ok \in BOOLEAN :
       /\ websites[w].id = websiteId
       /\ RowIndex(businesses, websites[w].business_id) # 0
       /\ LET business == businesses[RowIndex(businesses, websites[w].business_id)]
              projectName == generateSubdomain(business.name,
                                               websites[w].variation_number)
              answer == IF ok THEN "https://" \o projectName \o ".vercel.app" ELSE NULL
              r == DeployWebsite(businesses, websites, websiteId, answer)
          IN  /\ hosting' = [hosting EXCEPT
                   !.projects = @ \cup {projectName},
                   !.projectName = projectName,
                   !.deployments = IF ok
                     THEN Append(@, [ project |-> projectName,
                                      websiteId |-> websiteId,
                                      business_id |-> business.id,
                                      variation_number |->
                                        websites[w].variation_number,
                                      replaced |-> Serves(hosting, projectName) ])
                     ELSE @]
              /\ businesses' = r.businesses
              /\ websites' = r.websites
              /\ result' = [op |-> "deployWebsite", error |-> NULL,
                            value |-> [success |-> r.success, url |-> r.url,
                                       websiteId |-> websiteId]]
              /\ completed' = IF r.success
                                THEN Complete(completed, business.id, "deployed")
                                ELSE completed
  /\ UNCHANGED <<outreach, stage, runs, responses, disc, gen, dep, discLog, clock,
                 upload, limiter, sent, execs>>

\* Two discovered businesses in different cities; the second one's name is
\* drawn from names that are equal to, a case variant of, or different from
\* the first one's.
ProjectNames == {"Joe", "JOE", "Joe LLC", "Al"}

ProjectRows(name) ==
  << BusinessRow(DiscoveredBusiness(PlaceJoe, "barber_shop", Areas[1]), "u1"),
     BusinessRow(DiscoveredBusiness([place_id |-> "P2", name |-> name,
                                     city |-> "Tupelo", state |-> "MS"],
                                    "barber_shop", Areas[1]), "u2") >>

InitProjects ==
  \E name \in ProjectNames :
    InitWithHosting(ProjectRows(name), <<>>, IdleHosting(FALSE))

NextProjects ==
  \/ \E data \in [business_id : {"u1", "u2"}, template_name : {TEMPLATE_ORDER[1]},
                  variation_number : {1, 2}] : insertWebsite(data)
  \/ \E id \in {"w1", "w2"} : DeployToProject(id)

SpecProjects == InitProjects /\ [][NextProjects]_vars

\* C37: any two generated websites that differ in owning business or in
\* variation_number are deployed to different hosting project names, so no
\* deployment replaces the deployment of another website.
C37_DistinctWebsitesDistinctProjects ==
  /\ \A i, j \in 1..Len(hosting.deployments) :
       (\/ hosting.deployments[i].business_id # hosting.deployments[j].business_id
        \/ hosting.deployments[i].variation_number
             # hosting.deployments[j].variation_number)
         => hosting.deployments[i].project # hosting.deployments[j].project
  /\ \A i \in 1..Len(hosting.deployments) :
       LET d == hosting.deployments[i]
       IN  d.replaced # 0 =>
             /\ hosting.deployments[d.replaced].business_id = d.business_id
             /\ hosting.deployments[d.replaced].variation_number = d.variation_number

\* C38: in every reachable state of a RateLimiter the token count lies
\* between 0 and the capacity, also with several acquire calls in flight and
\* suspended in the wait (tokens are counted in thousandths).
C38_TokensWithinCapacity ==
  limiter.made =>
    /\ 0 <= limiter.tokens
    /\ limiter.tokens <= limiter.maxTokens * 1000

\* ------------------------------------ two executions of run (SpecTwoRuns)
\* execs[e] is a record like disc for execution e of DiscoveryService.run.
\* Both executions share the process and the store; each step below runs
\* from one suspension point (an awaited adapter call, or the await of
\* saveIfNew in the loop of step 4) to the next, and saveIfNew itself has no
\* await between its two queries and its insert.
PlaceCAFE == [place_id |-> "P9", name |-> "CAFÉ", business_status |-> "OPERATIONAL"]

TwinEntryLists == { <<PlaceJoe, PlaceAl>>, <<PlaceJOE>>, <<PlaceCafe>>, <<PlaceCAFE>> }

TwinResponses ==
  {[fails |-> TRUE, entries |-> <<>>]} \cup [fails : {FALSE}, entries : TwinEntryLists]

\* run() is called: execution e starts with its first pair.
ExecStart(e) ==
  /\ execs[e].phase = "idle"
  /\ execs[e].pair = 0
  /\ execs' = [execs EXCEPT ![e] = [IdleDisc EXCEPT !.pair = 1, !.phase = "search",
                                                     !.rowsBefore = Len(businesses)]]
  /\ UNCHANGED <<storeVars, result, completed, stage, runs, responses, disc, gen, dep,
                 discLog, clock, hosting, upload, limiter, sent>>

\* searchBusinesses + getPlaceDetailsBatch + the filter for e's current
\* pair; the adapter answers r.
ExecSearch(e) ==
  /\ execs[e].phase = "search"
  /\ execs[e].pair <= NumPairs
  /\ \E r \in TwinResponses :
       LET cands == WithoutWebsites(r.entries)
           stats == [ZeroStats EXCEPT !.found = Len(r.entries),
                                      !.withoutWebsite = Len(cands)]
           d     == [execs[e] EXCEPT !.visited = Append(@, execs[e].pair)]
       IN  execs' = [execs EXCEPT ![e] =
                       IF r.fails THEN PairFailed(d)
                       ELSE IF Len(r.entries) = 0 THEN PairReturned(d, ZeroStats)
                       ELSE IF cands = <<>> THEN PairReturned(d, stats)
                       ELSE [d EXCEPT !.phase = "save", !.cands = cands, !.i = 1,
                                      !.stats = stats]]
  /\ UNCHANGED <<storeVars, result, completed, stage, runs, responses, disc, gen, dep,
                 discLog, clock, hosting, upload, limiter, sent>>

\* One iteration of e's step 4: saveIfNew on its next surviving candidate.
ExecSave(e) ==
  /\ execs[e].phase = "save"
  /\ LET x     == execs[e]
         place == x.cands[x.i]
         r     == SaveIfNew(businesses, place, PairCategory(x.pair), PairArea(x.pair))
         stats == CountSaved(x.stats, r.outcome = "saved")
         d     == [x EXCEPT !.last = r.outcome,
                            !.inserted = IF r.outcome = "saved" THEN @ + 1 ELSE @]
     IN  /\ businesses' = r.businesses
         /\ execs' = [execs EXCEPT ![e] =
                        IF r.outcome = "threw" THEN PairFailed(d)
                        ELSE IF x.i = Len(x.cands) THEN PairReturned(d, stats)
                        ELSE [d EXCEPT !.i = x.i + 1, !.stats = stats]]
  /\ UNCHANGED <<websites, outreach, result, completed, stage, runs, responses, disc,
                 gen, dep, discLog, clock, hosting, upload, limiter, sent>>

\* e's run() returns its summary.
ExecReturn(e) ==
  /\ execs[e].phase = "search"
  /\ execs[e].pair > NumPairs
  /\ execs' = [execs EXCEPT ![e].phase = "done"]
  /\ UNCHANGED <<storeVars, result, completed, stage, runs, responses, disc, gen, dep,
                 discLog, clock, hosting, upload, limiter, sent>>

\* The store the two executions meet: empty, or holding the row of another
\* source that carries a place id.
TwinStores ==
  { <<>>,
    << BusinessRow([name |-> "Joe LLC", city |-> "Oxford", state |-> "MS",
                    source |-> "ms_sos", source_id |-> "T1",
                    google_place_id |-> "P1", has_website |-> 0], "u1") >> }

InitTwoRuns == \E bs \in TwinStores : InitWith(bs, <<>>)

NextTwoRuns ==
  \/ \E e \in Execs : ExecStart(e)
  \/ \E e \in Execs : ExecSearch(e)
  \/ \E e \in Execs : ExecSave(e)
  \/ \E e \in Execs : ExecReturn(e)

SpecTwoRuns == InitTwoRuns /\ [][NextTwoRuns]_vars

\* C39: when two executions of DiscoveryService.run interleave at their
\* suspension points, the store never holds two business rows with the same
\* google_place_id or with the same (name, city, state) compared
\* case-insensitively, and no saveIfNew of either execution meets a
\* uniqueness error.
C39_InterleavedRunsInsertNoDuplicates ==
  /\ \A i, j \in 1..Len(businesses) :
       i # j =>
         /\ ~ ( /\ businesses[i].google_place_id # NULL
                /\ businesses[i].google_place_id = businesses[j].google_place_id )
         /\ ~ ( /\ CaseInsensitiveEq(businesses[i].name, businesses[j].name)
                /\ CaseInsensitiveEq(businesses[i].city, businesses[j].city)
                /\ CaseInsensitiveEq(businesses[i].state, businesses[j].state) )
  /\ \A e \in Execs : execs[e].last # "threw"
====
